---- MODULE Spec2Model ----
(***************************************************************************)
(* Performance Aggregation & Scoring Subsystem of the PMS repository.      *)
(*                                                                         *)
(* Numbers.  The client holds JavaScript numbers; the decimal ones are     *)
(* modelled in thousandths ("milli": 125 is 0.125).  The store holds       *)
(* INTEGER columns as integers and DECIMAL(n,2) columns in hundredths      *)
(* ("centi": 8418 is 84.18).  Weights are whole percents (20 is 20.00).    *)
(* Scores are computed exactly, as rationals, and rounded half away from   *)
(* zero where the code rounds (numeric column typmod, Number.toFixed).     *)
(***************************************************************************)
EXTENDS Integers, Sequences, FiniteSets, TLC

VARIABLES
    \* ---- the record store (supabase/init.sql) ----
    performance_records,   \* set of rows of table performance_records
    quality_inspections,   \* set of rows of table quality_inspections
    nextId,                \* next primary key handed out by the store
    \* ---- Performance.tsx component state ----
    records,               \* useState records: last fetched list
    filterPeriod,
    filterBranch,
    filterGroup,
    showGenerateModal,
    generatePeriod,
    generateBranch,
    generateGroup,
    employeeDataList,      \* the roster in progress (sequence of EmployeeData)
    batchValues,           \* batchAttendance, batchAnnotation, batchOnsite, ...
    pendingLoads,          \* loadEmployeesForGroup calls suspended at their await
    editRecord,            \* the edit modal's record, or NoRecord
    lastCall,              \* the store call made by the step just taken, and its outcome
    alert,                 \* the alert() shown by the step just taken
    edits,                 \* number of inputs entered: changes to form inputs, texts imported
    \* ---- ImportData component state ----
    selectedBranch,
    importResult,
    \* ---- scoring functions applied to drawn inputs ----
    sc_in, sc_tg, sc_pv,
    \* ---- an operation applied on its own: the inputs drawn and its results ----
    op_in, op_out,
    \* ---- the session and the lists of the other pages ----
    currentUser,           \* useAuth().user: the principal signed in
    qcRecords,             \* QCAccuracy: useState records
    recentImports,         \* ImportData: useState recentImports
    selectedRecords,       \* Performance: ids ticked in the list for batch delete
    \* ---- AuthContext: the clock and the stored session ----
    now,                   \* Date.now(), in hours
    pms_session,           \* localStorage item SESSION_KEY: a SessionData, or NoRecord
    loading                \* useState loading

storeVars == <<performance_records, quality_inspections, nextId>>
genVars == <<showGenerateModal, generatePeriod, generateBranch, generateGroup,
             employeeDataList, batchValues, pendingLoads>>
pageVars == <<records, filterPeriod, editRecord>>
impVars == <<selectedBranch, importResult>>
scVars == <<sc_in, sc_tg, sc_pv>>
opVars == <<op_in, op_out>>
authVars == <<now, pms_session, loading>>
viewVars == <<currentUser, filterBranch, filterGroup, qcRecords, recentImports,
              selectedRecords, authVars>>
obsVars == <<lastCall, alert>>
vars == <<storeVars, genVars, pageVars, impVars, scVars, opVars, viewVars, obsVars, edits>>

NoRecord == [none |-> TRUE]
NoCall == [kind |-> "none"]
NoAlert == [text |-> ""]
NULL == "NULL"

(***************************************************************************)
(* Exact arithmetic helpers                                                *)
(***************************************************************************)
Abs(x) == IF x < 0 THEN -x ELSE x

\* value = ip + fn/fd with 0 <= fn < fd, rounded to a multiple of unit, ties
\* away from zero (PostgreSQL numeric rounding; Number.prototype.toFixed).
RoundHalfAway(ip, fn, fd, unit) ==
    LET k == ip \div unit
        b == ip % unit
        twice == 2 * (b * fd + fn)
        half == unit * fd
    IN  IF ip < 0
        THEN IF twice > half THEN k + 1 ELSE k
        ELSE IF twice >= half THEN k + 1 ELSE k

\* A + p/R + q/I as [ip, fn, fd] with 0 <= fn < fd  (R > 0, I > 0)
SumParts(A, p, R, q, I) ==
    LET f0 == (p % R) * I + (q % I) * R
        fd == R * I
    IN  [ip |-> A + (p \div R) + (q \div I) + (f0 \div fd), fn |-> f0 % fd, fd |-> fd]

\* a JavaScript number held in thousandths -> a DECIMAL(n,2) column, in hundredths
ToScale2(m) == RoundHalfAway(m, 0, 1, 10)

(***************************************************************************)
(* Table performance_records: column types and defaults                    *)
(***************************************************************************)
DefaultWeightAnnotation == 20
DefaultWeightAttendance == 20
DefaultWeightOnsite == 20
DefaultWeightAccuracy == 40

\* DECIMAL(5,2): annotation_score, deduction_points, bonus_points
FitsNumeric52(c) == Abs(c) < 100000
\* DECIMAL(3,2): onsite_performance
FitsNumeric32(c) == Abs(c) < 1000
\* DECIMAL(8,2): final_score
FitsNumeric82(c) == Abs(c) < 100000000

\* The scoring columns of a write payload as the columns hold them.
ToColumns(data) ==
    [actual_attendance |-> data.actual_attendance,
     required_attendance |-> data.required_attendance,
     annotation_score |-> ToScale2(data.annotation_score),
     onsite_performance |-> ToScale2(data.onsite_performance),
     total_inspected |-> data.total_inspected,
     total_errors |-> data.total_errors,
     deduction_points |-> ToScale2(data.deduction_points),
     bonus_points |-> ToScale2(data.bonus_points)]

\* A numeric field overflow makes the statement fail.
ColumnsOk(data) ==
    /\ FitsNumeric52(ToScale2(data.annotation_score))
    /\ FitsNumeric32(ToScale2(data.onsite_performance))
    /\ FitsNumeric52(ToScale2(data.deduction_points))
    /\ FitsNumeric52(ToScale2(data.bonus_points))

(***************************************************************************)
(* Store-side scoring: trigger function calculate_performance_score        *)
(* (BEFORE INSERT OR UPDATE ... FOR EACH ROW).  Sub-scores are rationals   *)
(* [n, d] in points; onsite_score is in hundredths of a point.             *)
(***************************************************************************)
\* fault model: a missing required_attendance scores 0
attendance_score_else_zero(NewRow) ==
    IF NewRow.required_attendance > 0
    THEN [n |-> NewRow.actual_attendance * 100, d |-> NewRow.required_attendance]
    ELSE [n |-> 0, d |-> 1]

attendance_score(NewRow) ==
    IF NewRow.required_attendance > 0
    THEN [n |-> NewRow.actual_attendance * 100, d |-> NewRow.required_attendance]
    ELSE [n |-> 100, d |-> 1]

onsite_score(NewRow) == NewRow.onsite_performance * 20

accuracy_score(NewRow) ==
    IF NewRow.total_inspected > 0
    THEN [n |-> (NewRow.total_inspected - NewRow.total_errors) * 100, d |-> NewRow.total_inspected]
    ELSE [n |-> 100, d |-> 1]

\* base_score in units of 1/10000 point, as [ip, fn, fd]
base_score(NewRow) ==
    SumParts(NewRow.annotation_score * NewRow.weight_annotation
                 + onsite_score(NewRow) * NewRow.weight_onsite,
             attendance_score(NewRow).n * NewRow.weight_attendance * 100,
             attendance_score(NewRow).d,
             accuracy_score(NewRow).n * NewRow.weight_accuracy * 100,
             accuracy_score(NewRow).d)

\* base_score - COALESCE(deduction_points, 0) + COALESCE(bonus_points, 0), exact
final_exact(NewRow) ==
    [base_score(NewRow) EXCEPT
        !.ip = @ - NewRow.deduction_points * 100 + NewRow.bonus_points * 100]

\* the earlier definition of the function ended with GREATEST(0, LEAST(100, score))
final_score_clamped(NewRow) ==
    LET x == final_exact(NewRow)
        c == RoundHalfAway(x.ip, x.fn, x.fd, 100)
    IN  IF c < 0 THEN 0 ELSE IF c > 10000 THEN 10000 ELSE c

\* NEW.final_score := ...  assigned to a DECIMAL(8,2) column
final_score_of(NewRow) ==
    LET x == final_exact(NewRow)
    IN  RoundHalfAway(x.ip, x.fn, x.fd, 100)

calculate_performance_score(NewRow) ==
    [NewRow EXCEPT !.final_score = final_score_of(NewRow)]

(***************************************************************************)
(* Client-side preview: calcPreviewScore (Performance.tsx)                 *)
(***************************************************************************)
attendanceScore(emp) ==
    IF emp.required_attendance > 0
    THEN [n |-> emp.actual_attendance * 100, d |-> emp.required_attendance]
    ELSE [n |-> 100, d |-> 1]

\* in thousandths of a point
onsiteScore(emp) == emp.onsite_performance * 20

accuracyScore(emp) ==
    IF emp.total_inspected > 0
    THEN [n |-> (emp.total_inspected - emp.total_errors) * 100, d |-> emp.total_inspected]
    ELSE [n |-> 100, d |-> 1]

\* baseScore in units of 1/100000 point, as [ip, fn, fd]
baseScore(emp) ==
    SumParts(emp.annotation_score * 20 + onsiteScore(emp) * 20,
             attendanceScore(emp).n * 20 * 1000,
             attendanceScore(emp).d,
             accuracyScore(emp).n * 40 * 1000,
             accuracyScore(emp).d)

\* score.toFixed(2), in hundredths
calcPreviewScore(emp) ==
    LET b == baseScore(emp)
        ip == b.ip - emp.deduction_points * 100 + emp.bonus_points * 100
    IN  RoundHalfAway(ip, b.fn, b.fd, 1000)


(***************************************************************************)
(* Reference data: branches, groups and users of role employee.  A group   *)
(* can be moved to another branch (Groups.tsx) without touching the        *)
(* branch_id of its members, so u2's own branch differs from its group's.  *)
(***************************************************************************)
Branches == {"b1", "b2"}

groups == {[id |-> "g1", branch_id |-> "b1", name |-> "G1"],
           [id |-> "g2", branch_id |-> "b2", name |-> "G2"]}

GroupIds == {g.id : g \in groups}

\* supabase.from('users').select('*').eq('role', 'employee').order('name')
employees == <<[id |-> "u2", name |-> "li", branch_id |-> "b2", group_id |-> "g1"],
               [id |-> "u3", name |-> "zhang", branch_id |-> "b2", group_id |-> NULL],
               [id |-> "u1", name |-> "zhang", branch_id |-> "b1", group_id |-> "g1"]>>

UserIds == {employees[i].id : i \in DOMAIN employees}

\* the principal of an administrator
Administrator == [role |-> "admin", branch_id |-> NULL, group_id |-> NULL]

\* periodOptions: the months offered by the period selects; lastMonth = periodOptions[1]
periodOptions == <<"2024-03", "2024-02">>
lastMonth == periodOptions[2]
Periods == {periodOptions[i] : i \in DOMAIN periodOptions}

\* period.split('-').map(Number)
PeriodYearMonth(period) ==
    CASE period = "2024-02" -> <<2024, 2>>
      [] period = "2024-03" -> <<2024, 3>>
      [] period = "2024-04" -> <<2024, 4>>
      [] period = "2023-02" -> <<2023, 2>>

(***************************************************************************)
(* Sequence helpers                                                        *)
(***************************************************************************)
Range(seq) == {seq[i] : i \in DOMAIN seq}

RECURSIVE SelectSeqBy(_, _)
\* seq.filter(keep), keep given as the set of positions kept
SelectSeqBy(seq, keep) ==
    IF seq = <<>> THEN <<>>
    ELSE LET n == Len(seq)
             front == SelectSeqBy(SubSeq(seq, 1, n - 1), keep)
         IN  IF n \in keep THEN Append(front, seq[n]) ELSE front

MapSeq(seq, Op(_)) == [i \in DOMAIN seq |-> Op(seq[i])]

(***************************************************************************)
(* Period Aggregator: fetchQCData (Performance.tsx)                        *)
(***************************************************************************)
IsLeapYear(y) == (y % 4 = 0 /\ y % 100 # 0) \/ y % 400 = 0

\* fault model: February has 28 days in every year
lastDayOfCommonYear(year, month) ==
    IF month \in {1, 3, 5, 7, 8, 10, 12} THEN 31
    ELSE IF month \in {4, 6, 9, 11} THEN 30
    ELSE 28

\* new Date(year, month, 0).getDate()
lastDay(year, month) ==
    IF month \in {1, 3, 5, 7, 8, 10, 12} THEN 31
    ELSE IF month \in {4, 6, 9, 11} THEN 30
    ELSE IF IsLeapYear(year) THEN 29 ELSE 28

\* dates are <<year, month, day>>; .gte / .lte compare them in calendar order
DateLeq(a, b) ==
    \/ a[1] < b[1]
    \/ a[1] = b[1] /\ a[2] < b[2]
    \/ a[1] = b[1] /\ a[2] = b[2] /\ a[3] <= b[3]

RECURSIVE SumOver(_, _)
SumOver(rows, field) ==
    IF rows = {} THEN 0
    ELSE LET r == CHOOSE x \in rows : TRUE
         IN  r[field] + SumOver(rows \ {r}, field)

\* `${period}-01`
periodStart(period) == <<PeriodYearMonth(period)[1], PeriodYearMonth(period)[2], 1>>

\* `${period}-${String(lastDay).padStart(2, '0')}`
periodEnd(period) ==
    <<PeriodYearMonth(period)[1], PeriodYearMonth(period)[2],
      lastDay(PeriodYearMonth(period)[1], PeriodYearMonth(period)[2])>>

\* the rows the query on quality_inspections answers with
qcData(userIds, period) ==
    {q \in quality_inspections :
        /\ DateLeq(periodStart(period), q.inspection_date)
        /\ DateLeq(q.inspection_date, periodEnd(period))
        /\ q.user_id \in userIds}

\* any one of the rows of a set, none of an empty set
AnyOneOf(rows) == IF rows = {} THEN {} ELSE {CHOOSE r \in rows : TRUE}

\* fault model: the summary of a user keeps the counts of one row, not the sums
fetchQCDataKeepingOneRow(userIds, period) ==
    [u \in userIds |->
        [inspected |-> SumOver(AnyOneOf({q \in qcData(userIds, period) : q.user_id = u}),
                               "inspected_count"),
         errors |-> SumOver(AnyOneOf({q \in qcData(userIds, period) : q.user_id = u}),
                            "error_count")]]

\* qcSummary.get(user_id) || { inspected: 0, errors: 0 }, for each user id asked for
fetchQCData(userIds, period) ==
    [u \in userIds |->
        [inspected |-> SumOver({q \in qcData(userIds, period) : q.user_id = u},
                               "inspected_count"),
         errors |-> SumOver({q \in qcData(userIds, period) : q.user_id = u},
                            "error_count")]]


(***************************************************************************)
(* Bounds of the model                                                     *)
(***************************************************************************)
MaxEdits == 1           \* inputs entered: changes to form inputs, texts imported

\* values an operator types into the number inputs (parseNumber of the text)
FieldInputs(field) ==
    CASE field = "actual_attendance" -> {22}
      [] field = "required_attendance" -> {0, 22}
      [] field = "annotation_score" -> {20000}
      [] field = "onsite_performance" -> {5000}
      [] field = "deduction_points" -> {0, 200000, 1000000}
      [] field = "bonus_points" -> {0, 200000}

NumberFields == {"actual_attendance", "required_attendance", "annotation_score",
                 "onsite_performance", "deduction_points", "bonus_points"}
FlagFields == {"selected"}

(***************************************************************************)
(* The store: table performance_records                                    *)
(* UNIQUE(user_id, period); BEFORE INSERT OR UPDATE trigger                *)
(***************************************************************************)
ScoringColumns == {"actual_attendance", "required_attendance", "annotation_score",
                   "onsite_performance", "total_inspected", "total_errors",
                   "deduction_points", "bonus_points"}

\* the row a statement's SET list produces from row r
SetColumns(r, cols) == [f \in DOMAIN r |-> IF f \in DOMAIN cols THEN cols[f] ELSE r[f]]

Conflicting(rows, recordData) ==
    {r \in rows : r.user_id = recordData.user_id /\ r.period = recordData.period}

\* the statement fails on a NOT NULL or numeric-overflow violation
PerformanceWriteOk(recordData) ==
    /\ ColumnsOk(recordData)
    /\ "branch_id" \in DOMAIN recordData => recordData.branch_id # NULL

\* fault model: INSERT ... ON CONFLICT (user_id, period) DO NOTHING
UpsertDoNothing(rows, id, recordData) ==
    IF Conflicting(rows, recordData) # {}
    THEN rows
    ELSE rows \cup
         {calculate_performance_score(
             ToColumns(recordData) @@
             [branch_id |-> recordData.branch_id, group_id |-> recordData.group_id,
              id |-> id, user_id |-> recordData.user_id, period |-> recordData.period,
              weight_annotation |-> DefaultWeightAnnotation,
              weight_attendance |-> DefaultWeightAttendance,
              weight_onsite |-> DefaultWeightOnsite,
              weight_accuracy |-> DefaultWeightAccuracy,
              final_score |-> NULL])}

\* INSERT ... ON CONFLICT (user_id, period) DO UPDATE SET <the payload's columns>,
\* on a table holding rows; id is the key a new row gets
UpsertPerformance(rows, id, recordData) ==
    LET cols == ToColumns(recordData) @@
                [branch_id |-> recordData.branch_id, group_id |-> recordData.group_id]
    IN  IF Conflicting(rows, recordData) # {}
        THEN {IF r \in Conflicting(rows, recordData)
              THEN calculate_performance_score(SetColumns(r, cols))
              ELSE r : r \in rows}
        ELSE rows \cup
             {calculate_performance_score(
                 cols @@
                 [id |-> id, user_id |-> recordData.user_id,
                  period |-> recordData.period,
                  weight_annotation |-> DefaultWeightAnnotation,
                  weight_attendance |-> DefaultWeightAttendance,
                  weight_onsite |-> DefaultWeightOnsite,
                  weight_accuracy |-> DefaultWeightAccuracy,
                  final_score |-> NULL])}

\* fault model: an update on which the scoring trigger does not fire
UpdateWithoutTrigger(rows, id, data) ==
    {IF r.id = id THEN SetColumns(r, ToColumns(data)) ELSE r : r \in rows}

\* UPDATE performance_records SET <the payload's columns> WHERE id = ...
UpdatePerformance(rows, id, data) ==
    {IF r.id = id
     THEN calculate_performance_score(SetColumns(r, ToColumns(data)))
     ELSE r : r \in rows}


(***************************************************************************)
(* Performance.tsx: page data                                              *)
(***************************************************************************)
\* fault model: the list is the table's rows for every role
fetchDataOfAllBranches(rows) == rows

\* the list fetchData() puts into records, read from the table's rows
fetchData(rows) ==
    IF currentUser.role = "manager"
    THEN {r \in rows : r.branch_id = currentUser.branch_id}
    ELSE rows

\* recordsData[0]?.period of a list ordered by period, latest first
TopPeriod(recordsData) ==
    CHOOSE p \in {r.period : r \in recordsData} :
        \A r \in recordsData :
            DateLeq(<<PeriodYearMonth(r.period)[1], PeriodYearMonth(r.period)[2], 1>>,
                    <<PeriodYearMonth(p)[1], PeriodYearMonth(p)[2], 1>>)

\* fetchData(): setRecords, and setFilterPeriod when the list has rows and none of
\* last month
FetchDataFrom(rows) ==
    /\ records' = fetchData(rows)
    /\ filterPeriod' = IF fetchData(rows) # {}
                          /\ ~\E r \in fetchData(rows) : r.period = lastMonth
                       THEN TopPeriod(fetchData(rows))
                       ELSE filterPeriod

\* the rows of the page's table: records narrowed by the three filters
filteredRecords ==
    {r \in records : /\ filterPeriod # "" => r.period = filterPeriod
                     /\ filterBranch # "" => r.branch_id = filterBranch
                     /\ filterGroup # "" => r.group_id = filterGroup}

\* the generate, edit and delete buttons are rendered for these roles only
canEdit == currentUser.role \in {"admin", "manager"}

\* a step that calls nothing in the store and shows no alert
Quiet == lastCall' = NoCall /\ alert' = NoAlert

(***************************************************************************)
(* Performance.tsx: batch generation                                       *)
(***************************************************************************)
BatchDefaults == [batchAttendance |-> 22, batchOnsite |-> 5000, batchAnnotation |-> 20000,
                  batchDeduction |-> 0, batchBonus |-> 0]

\* the page's button, covered while a modal's overlay is shown
openGenerateModal ==
    /\ canEdit
    /\ ~showGenerateModal
    /\ editRecord = NoRecord
    /\ generatePeriod' = lastMonth
    /\ generateBranch' = IF currentUser.role = "manager" /\ currentUser.branch_id # NULL
                         THEN currentUser.branch_id ELSE ""
    /\ generateGroup' = ""
    /\ employeeDataList' = <<>>
    /\ batchValues' = BatchDefaults
    /\ showGenerateModal' = TRUE
    /\ Quiet
    /\ UNCHANGED <<storeVars, pendingLoads, pageVars, impVars, scVars, opVars, viewVars, edits>>

\* the modal's cancel button
closeGenerateModal ==
    /\ showGenerateModal
    /\ showGenerateModal' = FALSE
    /\ Quiet
    /\ UNCHANGED <<storeVars, generatePeriod, generateBranch, generateGroup,
                   employeeDataList, batchValues, pendingLoads,
                   pageVars, impVars, scVars, opVars, viewVars, edits>>

\* onChange of the period select
setGeneratePeriod(p) ==
    /\ showGenerateModal
    /\ p # generatePeriod
    /\ edits < MaxEdits
    /\ edits' = edits + 1
    /\ generatePeriod' = p
    /\ employeeDataList' = <<>>
    /\ Quiet
    /\ UNCHANGED <<storeVars, showGenerateModal, generateBranch, generateGroup, batchValues,
                   pendingLoads, pageVars, impVars, scVars, opVars, viewVars>>

\* onChange of the branch select (admin only)
setGenerateBranch(b) ==
    /\ showGenerateModal
    /\ currentUser.role = "admin"
    /\ b # generateBranch
    /\ edits < MaxEdits
    /\ edits' = edits + 1
    /\ generateBranch' = b
    /\ generateGroup' = ""
    /\ employeeDataList' = <<>>
    /\ Quiet
    /\ UNCHANGED <<storeVars, showGenerateModal, generatePeriod, batchValues,
                   pendingLoads, pageVars, impVars, scVars, opVars, viewVars>>

generateAvailableGroups ==
    IF generateBranch # ""
    THEN {g \in groups : g.branch_id = generateBranch}
    ELSE IF currentUser.role = "manager" /\ currentUser.branch_id # NULL
         THEN {g \in groups : g.branch_id = currentUser.branch_id}
         ELSE groups

\* onChange of the group select: loadEmployeesForGroup up to its await
loadEmployeesForGroup(groupId) ==
    /\ showGenerateModal
    /\ groupId # generateGroup
    /\ groupId \in {""} \cup {g.id : g \in generateAvailableGroups}
    /\ IF groupId = "" \/ generatePeriod = ""
       THEN UNCHANGED <<generateGroup, pendingLoads>>
       ELSE /\ generateGroup' = groupId
            /\ pendingLoads' = pendingLoads \cup
                   {[groupId |-> groupId, period |-> generatePeriod,
                     batchAttendance |-> batchValues.batchAttendance,
                     batchAnnotation |-> batchValues.batchAnnotation]}
    /\ Quiet
    /\ UNCHANGED <<storeVars, showGenerateModal, generatePeriod, generateBranch,
                   employeeDataList, batchValues, pageVars, impVars, scVars, opVars, viewVars, edits>>

SeedRow(emp, qc, load) ==
    [user_id |-> emp.id, name |-> emp.name, selected |-> TRUE, batchSelected |-> TRUE,
     actual_attendance |-> load.batchAttendance, required_attendance |-> 22,
     annotation_score |-> load.batchAnnotation, onsite_performance |-> 5000,
     total_inspected |-> qc.inspected, total_errors |-> qc.errors,
     deduction_points |-> 0, bonus_points |-> 0]

\* fault model: the rows loaded are added to the roster in progress
loadEmployeesResolveAppending(load) ==
    /\ load \in pendingLoads
    /\ LET groupEmployees ==
               SelectSeqBy(employees,
                           {i \in DOMAIN employees : employees[i].group_id = load.groupId})
           qcSummary == fetchQCData({groupEmployees[i].id : i \in DOMAIN groupEmployees},
                                    load.period)
       IN  employeeDataList' = employeeDataList \o
               [i \in DOMAIN groupEmployees |->
                   SeedRow(groupEmployees[i], qcSummary[groupEmployees[i].id], load)]
    /\ pendingLoads' = pendingLoads \ {load}
    /\ Quiet
    /\ UNCHANGED <<storeVars, showGenerateModal, generatePeriod, generateBranch,
                   generateGroup, batchValues, pageVars, impVars, scVars, opVars, viewVars, edits>>

\* loadEmployeesForGroup after its await: the aggregator's answer arrives
loadEmployeesResolve(load) ==
    /\ load \in pendingLoads
    /\ LET groupEmployees ==
               SelectSeqBy(employees,
                           {i \in DOMAIN employees : employees[i].group_id = load.groupId})
           qcSummary == fetchQCData({groupEmployees[i].id : i \in DOMAIN groupEmployees},
                                    load.period)
       IN  employeeDataList' =
               [i \in DOMAIN groupEmployees |->
                   SeedRow(groupEmployees[i], qcSummary[groupEmployees[i].id], load)]
    /\ pendingLoads' = pendingLoads \ {load}
    /\ Quiet
    /\ UNCHANGED <<storeVars, showGenerateModal, generatePeriod, generateBranch,
                   generateGroup, batchValues, pageVars, impVars, scVars, opVars, viewVars, edits>>

\* a checkbox or number input of one roster row
updateEmployeeData(userId, field, value) ==
    /\ showGenerateModal
    /\ \E i \in DOMAIN employeeDataList :
          employeeDataList[i].user_id = userId /\ employeeDataList[i][field] # value
    /\ edits < MaxEdits
    /\ edits' = edits + 1
    /\ employeeDataList' =
           [i \in DOMAIN employeeDataList |->
               IF employeeDataList[i].user_id = userId
               THEN [employeeDataList[i] EXCEPT ![field] = value]
               ELSE employeeDataList[i]]
    /\ Quiet
    /\ UNCHANGED <<storeVars, showGenerateModal, generatePeriod, generateBranch,
                   generateGroup, batchValues, pendingLoads, pageVars, impVars,
                   scVars, opVars, viewVars>>

selectedEmployees ==
    SelectSeqBy(employeeDataList,
                {i \in DOMAIN employeeDataList : employeeDataList[i].selected})

\* fault model: a validation that does not look at the group
RejectedWithoutGroup ==
    generatePeriod = "" \/ selectedEmployees = <<>>

\* the validation at the head of handleGeneratePerformance
GenerateRejected ==
    generateGroup = "" \/ generatePeriod = "" \/ selectedEmployees = <<>>

\* groups.find(g => g.id === generateGroup)?.branch_id
GroupBranch(groupId) ==
    IF \E g \in groups : g.id = groupId
    THEN (CHOOSE g \in groups : g.id = groupId).branch_id
    ELSE NULL

\* fault model: a record that carries the branch and group of the employee's user row
recordDataOfUser(emp, groupId, period) ==
    LET u == CHOOSE i \in DOMAIN employees : employees[i].id = emp.user_id
    IN  [user_id |-> emp.user_id,
         branch_id |-> employees[u].branch_id,
         group_id |-> employees[u].group_id,
         period |-> period,
         actual_attendance |-> emp.actual_attendance,
         required_attendance |-> emp.required_attendance,
         annotation_score |-> emp.annotation_score,
         onsite_performance |-> emp.onsite_performance,
         total_inspected |-> emp.total_inspected,
         total_errors |-> emp.total_errors,
         deduction_points |-> emp.deduction_points,
         bonus_points |-> emp.bonus_points]

recordData(emp, groupId, period) ==
    [user_id |-> emp.user_id,
     branch_id |-> GroupBranch(groupId),
     group_id |-> groupId,
     period |-> period,
     actual_attendance |-> emp.actual_attendance,
     required_attendance |-> emp.required_attendance,
     annotation_score |-> emp.annotation_score,
     onsite_performance |-> emp.onsite_performance,
     total_inspected |-> emp.total_inspected,
     total_errors |-> emp.total_errors,
     deduction_points |-> emp.deduction_points,
     bonus_points |-> emp.bonus_points]

\* the state of the loop before its first iteration
LoopStart(rows, id) ==
    [rows |-> rows, nextId |-> id, successCount |-> 0, failCount |-> 0,
     failedNames |-> <<>>, attempts |-> <<>>]

\* one iteration of the loop on row emp: the upsert, then the counting of its outcome;
\* reachable tells whether the store answers the call
GenerateStep(emp, reachable, groupId, period, st) ==
    LET data == recordData(emp, groupId, period)
        existed == Conflicting(st.rows, data) # {}
        ok == reachable /\ PerformanceWriteOk(data)
    IN  [rows |-> IF ok THEN UpsertPerformance(st.rows, st.nextId, data) ELSE st.rows,
         nextId |-> IF ok /\ ~existed THEN st.nextId + 1 ELSE st.nextId,
         successCount |-> st.successCount + (IF ok THEN 1 ELSE 0),
         failCount |-> st.failCount + (IF ok THEN 0 ELSE 1),
         failedNames |-> IF ok THEN st.failedNames ELSE Append(st.failedNames, emp.name),
         attempts |-> Append(st.attempts,
                             [user_id |-> emp.user_id, name |-> emp.name, ok |-> ok,
                              data |-> data, existed |-> existed])]

\* fault model: a loop that gives up at the first failed row
RECURSIVE LoopAbortingOnFailure(_, _, _, _, _, _)
LoopAbortingOnFailure(S, idx, down, groupId, period, st) ==
    IF idx > Len(S) \/ st.failCount > 0 THEN st
    ELSE LoopAbortingOnFailure(S, idx + 1, down, groupId, period,
                               GenerateStep(S[idx], idx \notin down, groupId, period, st))

\* for (const emp of selectedEmployees) { ... }, from iteration idx on; down is the
\* set of iterations at which the store cannot be reached
RECURSIVE GenerateLoop(_, _, _, _, _, _)
GenerateLoop(S, idx, down, groupId, period, st) ==
    IF idx > Len(S) THEN st
    ELSE GenerateLoop(S, idx + 1, down, groupId, period,
                      GenerateStep(S[idx], idx \notin down, groupId, period, st))

\* what the code after the loop does: the alert shown and whether the modal closes
commitSummary(successCount, failCount, failedNames) ==
    IF failCount = 0
    THEN [alert |-> [text |-> "generated"], close |-> TRUE]
    ELSE IF successCount = 0
    THEN [alert |-> [text |-> "generation failed", failedNames |-> failedNames],
          close |-> FALSE]
    ELSE [alert |-> [text |-> "partly generated", successCount |-> successCount,
                     failCount |-> failCount, failedNames |-> failedNames],
          close |-> TRUE]

\* click on the generate button (disabled while no row is selected): the whole of
\* handleGeneratePerformance, its fetchData() included
handleGeneratePerformance(down) ==
    /\ showGenerateModal
    /\ selectedEmployees # <<>>
    /\ down \subseteq DOMAIN selectedEmployees
    /\ IF GenerateRejected
       THEN /\ down = {}
            /\ alert' = [text |-> "choose a group and at least one employee"]
            /\ lastCall' = NoCall
            /\ UNCHANGED <<performance_records, nextId, showGenerateModal, records, filterPeriod>>
       ELSE LET end == GenerateLoop(selectedEmployees, 1, down, generateGroup,
                                    generatePeriod,
                                    LoopStart(performance_records, nextId))
                summary == commitSummary(end.successCount, end.failCount,
                                         end.failedNames)
            IN  /\ performance_records' = end.rows
                /\ nextId' = end.nextId
                /\ lastCall' = [kind |-> "generate", S |-> selectedEmployees,
                                group_id |-> generateGroup, period |-> generatePeriod,
                                before |-> performance_records,
                                attempts |-> end.attempts,
                                successCount |-> end.successCount,
                                failCount |-> end.failCount,
                                failedNames |-> end.failedNames]
                /\ alert' = summary.alert
                /\ showGenerateModal' = IF summary.close THEN FALSE
                                        ELSE showGenerateModal
                /\ FetchDataFrom(performance_records')
    /\ UNCHANGED <<quality_inspections, generatePeriod, generateBranch, generateGroup,
                   employeeDataList, batchValues, pendingLoads, editRecord,
                   impVars, scVars, opVars, viewVars, edits>>


(***************************************************************************)
(* Performance.tsx: edit modal and delete                                  *)
(***************************************************************************)
\* a stored number as the client receives it (JSON number)
FromScale2(c) == c * 10

\* a row's edit button, covered while a modal's overlay is shown
openEditModal(record) ==
    /\ canEdit
    /\ record \in filteredRecords
    /\ editRecord = NoRecord
    /\ ~showGenerateModal
    /\ editRecord' =
           [id |-> record.id, user_id |-> record.user_id, period |-> record.period,
            actual_attendance |-> record.actual_attendance,
            required_attendance |-> record.required_attendance,
            annotation_score |-> FromScale2(record.annotation_score),
            onsite_performance |-> FromScale2(record.onsite_performance),
            total_inspected |-> record.total_inspected,
            total_errors |-> record.total_errors,
            deduction_points |-> FromScale2(record.deduction_points),
            bonus_points |-> FromScale2(record.bonus_points)]
    /\ Quiet
    /\ UNCHANGED <<storeVars, genVars, records, filterPeriod, impVars, scVars, opVars, viewVars, edits>>

\* the edit modal's cancel button
closeEditModal ==
    /\ editRecord # NoRecord
    /\ editRecord' = NoRecord
    /\ Quiet
    /\ UNCHANGED <<storeVars, genVars, records, filterPeriod, impVars, scVars, opVars, viewVars, edits>>

\* a number input of the edit modal
setEditRecord(field, value) ==
    /\ editRecord # NoRecord
    /\ editRecord[field] # value
    /\ edits < MaxEdits
    /\ edits' = edits + 1
    /\ editRecord' = [editRecord EXCEPT ![field] = value]
    /\ Quiet
    /\ UNCHANGED <<storeVars, genVars, records, filterPeriod, impVars, scVars, opVars, viewVars>>

\* handleSaveEdit, with the store's answer to its update
handleSaveEdit(reachable) ==
    /\ editRecord # NoRecord
    /\ LET ok == reachable /\ ColumnsOk(editRecord)
       IN  /\ performance_records' = IF ok THEN UpdatePerformance(performance_records, editRecord.id, editRecord)
                                     ELSE performance_records
           /\ lastCall' = [kind |-> "update", ok |-> ok, id |-> editRecord.id,
                           data |-> editRecord]
           /\ IF ok
              THEN /\ alert' = [text |-> "saved"]
                   /\ editRecord' = NoRecord
                   /\ FetchDataFrom(performance_records')
              ELSE /\ alert' = [text |-> "save failed"]
                   /\ UNCHANGED <<editRecord, records, filterPeriod>>
    /\ UNCHANGED <<quality_inspections, nextId, genVars, impVars, scVars, opVars, viewVars, edits>>

\* handleDelete, confirmed, with the store's answer
handleDelete(recordId, reachable) ==
    /\ canEdit
    /\ \E r \in filteredRecords : r.id = recordId
    /\ editRecord = NoRecord
    /\ ~showGenerateModal
    /\ performance_records' = IF reachable
                              THEN {r \in performance_records : r.id # recordId}
                              ELSE performance_records
    /\ lastCall' = [kind |-> "delete", ok |-> reachable, id |-> recordId]
    /\ IF reachable
       THEN alert' = [text |-> "deleted"] /\ FetchDataFrom(performance_records')
       ELSE alert' = [text |-> "delete failed"] /\ UNCHANGED <<records, filterPeriod>>
    /\ UNCHANGED <<quality_inspections, nextId, genVars, editRecord, impVars, scVars, opVars, viewVars, edits>>

(***************************************************************************)
(* Specification of the Performance page against the store                 *)
(***************************************************************************)
\* aggregates already imported when the page is opened
ImportedInspections ==
    {[user_id |-> "u1", branch_id |-> "b1", inspection_date |-> <<2024, 2, 10>>,
      topic |-> "t1", batch_name |-> "A", inspected_count |-> 64, error_count |-> 1],
     [user_id |-> "u1", branch_id |-> "b1", inspection_date |-> <<2024, 2, 29>>,
      topic |-> "t1", batch_name |-> "B", inspected_count |-> 136, error_count |-> 9],
     [user_id |-> "u1", branch_id |-> "b1", inspection_date |-> <<2024, 3, 1>>,
      topic |-> "t1", batch_name |-> "B", inspected_count |-> 8, error_count |-> 8],
     [user_id |-> "u3", branch_id |-> "b2", inspection_date |-> <<2024, 2, 1>>,
      topic |-> "t2", batch_name |-> "A", inspected_count |-> 8, error_count |-> 1]}

ScInitIdle == sc_in = NoRecord /\ sc_tg = NoRecord /\ sc_pv = NoRecord

OpInitIdle == op_in = NoRecord /\ op_out = NoRecord

ImportInitIdle ==
    /\ selectedBranch = ""
    /\ importResult = NoRecord

\* the session of an administrator, no list of another page fetched
SESSION_DURATION == 24    \* hours

\* user has signed in just now
SignedIn(user) ==
    /\ currentUser = user
    /\ now = 0
    /\ pms_session = [user |-> user, expiresAt |-> now + SESSION_DURATION]
    /\ loading = FALSE

AdminInit ==
    /\ SignedIn(Administrator)
    /\ selectedRecords = {}
    /\ filterBranch = ""
    /\ filterGroup = ""
    /\ qcRecords = {}
    /\ recentImports = {}

PageInit ==
    /\ records = {}
    /\ filterPeriod = lastMonth
    /\ showGenerateModal = FALSE
    /\ generatePeriod = ""
    /\ generateBranch = ""
    /\ generateGroup = ""
    /\ employeeDataList = <<>>
    /\ batchValues = BatchDefaults
    /\ pendingLoads = {}
    /\ editRecord = NoRecord
    /\ lastCall = NoCall
    /\ alert = NoAlert
    /\ edits = 0

Init ==
    /\ performance_records = {}
    /\ quality_inspections = ImportedInspections
    /\ nextId = 1
    /\ AdminInit
    /\ PageInit
    /\ ImportInitIdle
    /\ OpInitIdle
    /\ ScInitIdle

Next ==
    \/ openGenerateModal
    \/ closeGenerateModal
    \/ \E b \in Branches \cup {""} : setGenerateBranch(b)
    \/ \E g \in GroupIds \cup {""} : loadEmployeesForGroup(g)
    \/ \E load \in pendingLoads : loadEmployeesResolve(load)
    \/ \E u \in UserIds, f \in FlagFields, v \in BOOLEAN : updateEmployeeData(u, f, v)
    \/ \E u \in UserIds, f \in NumberFields :
          \E v \in FieldInputs(f) : updateEmployeeData(u, f, v)
    \/ \E down \in SUBSET DOMAIN selectedEmployees : handleGeneratePerformance(down)
    \/ \E r \in filteredRecords : openEditModal(r)
    \/ closeEditModal
    \/ \E f \in NumberFields : \E v \in FieldInputs(f) : setEditRecord(f, v)
    \/ \E reachable \in BOOLEAN : handleSaveEdit(reachable)

Spec == Init /\ [][Next]_vars


(***************************************************************************)
(* Properties of the Performance page against the store (Spec)             *)
(***************************************************************************)
\* the rows of the table that hold the key (user_id, period)
StoredFor(user_id, period) ==
    {r \in performance_records : r.user_id = user_id /\ r.period = period}

Generated == lastCall.kind = "generate"

OkAttempts == {i \in DOMAIN lastCall.attempts : lastCall.attempts[i].ok}

\* C1: every stored performance record's final_score is the scoring formula applied to
\* the record's own stored fields and weights (rounded to the column's two decimals),
\* whatever upserts and edit-modal updates have been made.
C1_FinalScoreMatchesFields ==
    \A r \in performance_records : r.final_score = final_score_of(r)

\* a saved edit has changed the deduction of a stored record
C1_Witness ==
    /\ lastCall.kind = "update" /\ lastCall.ok
    /\ \E r \in performance_records :
          r.id = lastCall.id /\ r.deduction_points = 20000 /\ r.final_score < 0

\* C3: the stored final_score is base_score - deduction + bonus with no floor and no
\* ceiling: it differs from round(base_score) - deduction + bonus by at most the last
\* digit's rounding, also below 0 and above 100.
C3_NoClamp ==
    \A r \in performance_records :
        LET b == base_score(r)
            rounded == RoundHalfAway(b.ip, b.fn, b.fd, 100)
        IN  Abs(r.final_score - (rounded - r.deduction_points + r.bonus_points)) <= 1

\* a record is stored with a final_score above 100
C3_Witness ==
    \E r \in performance_records : r.bonus_points = 20000 /\ r.final_score > 10000

\* C5: the commit is idempotent on (employee, period): the table never holds two records
\* with one key, and after a commit each row written holds exactly the input fields of
\* that commit.
C5_UpsertIdempotent ==
    /\ \A r1, r2 \in performance_records :
          (r1.user_id = r2.user_id /\ r1.period = r2.period) => r1 = r2
    /\ Generated =>
          \A i \in OkAttempts :
              LET a == lastCall.attempts[i]
              IN  /\ Cardinality(StoredFor(a.user_id, lastCall.period)) = 1
                  /\ \A r \in StoredFor(a.user_id, lastCall.period) :
                        \A f \in ScoringColumns : r[f] = ToColumns(a.data)[f]

\* a commit has overwritten a record that held another deduction
C5_Witness ==
    /\ Generated
    /\ \E i \in OkAttempts :
          LET a == lastCall.attempts[i]
          IN  /\ a.existed
              /\ \E r \in lastCall.before :
                    /\ r.user_id = a.user_id /\ r.period = lastCall.period
                    /\ r.deduction_points # ToScale2(a.data.deduction_points)

\* names of the rows of a commit whose upsert failed, in loop order
RECURSIVE FailedNamesOf(_)
FailedNamesOf(attempts) ==
    IF attempts = <<>> THEN <<>>
    ELSE IF attempts[1].ok THEN FailedNamesOf(Tail(attempts))
         ELSE <<attempts[1].name>> \o FailedNamesOf(Tail(attempts))

\* C6: a commit attempts each selected row exactly once, in order, whatever fails; rows
\* whose upsert did not fail are stored, rows whose upsert failed leave the table as it
\* was; successCount + failCount is the number of selected rows; failedNames names
\* exactly the failed rows.
C6_EveryRowAttemptedOnce ==
    Generated =>
        /\ Len(lastCall.attempts) = Len(lastCall.S)
        /\ \A i \in DOMAIN lastCall.S : lastCall.attempts[i].user_id = lastCall.S[i].user_id
        /\ lastCall.successCount = Cardinality(OkAttempts)
        /\ lastCall.successCount + lastCall.failCount = Len(lastCall.S)
        /\ lastCall.failedNames = FailedNamesOf(lastCall.attempts)
        /\ \A i \in DOMAIN lastCall.S :
              LET key == StoredFor(lastCall.S[i].user_id, lastCall.period)
              IN  IF i \in OkAttempts
                  THEN \E r \in key :
                          \A f \in ScoringColumns :
                              r[f] = ToColumns(lastCall.attempts[i].data)[f]
                  ELSE key = {r \in lastCall.before :
                                 r.user_id = lastCall.S[i].user_id
                                 /\ r.period = lastCall.period}

\* a commit of two rows whose first upsert failed and whose second was stored
C6_Witness ==
    /\ Generated
    /\ Len(lastCall.S) = 2
    /\ ~lastCall.attempts[1].ok /\ lastCall.attempts[2].ok
    /\ lastCall.failedNames = <<lastCall.S[1].name>>
    /\ StoredFor(lastCall.S[2].user_id, lastCall.period) # {}

\* C7: handleGeneratePerformance invoked with no group chosen, no period set or no row
\* selected makes no store call and leaves the store as it is.
C7_RejectedCommitWritesNothing ==
    [][(/\ generateGroup = "" \/ generatePeriod = "" \/ selectedEmployees = <<>>
        /\ \E down \in SUBSET DOMAIN selectedEmployees : handleGeneratePerformance(down))
       => (lastCall' = NoCall /\ UNCHANGED storeVars)]_vars

\* the generate button was pressed on a roster whose group select had been cleared
C7_Witness ==
    /\ alert = [text |-> "choose a group and at least one employee"]
    /\ generateGroup = ""
    /\ selectedEmployees # <<>>
    /\ lastCall = NoCall

\* C8: every record a commit writes carries the group chosen in the dialog and that
\* group's branch, whatever branch and group the employee's own user row names.
C8_RecordCarriesChosenGroup ==
    Generated =>
        \A i \in OkAttempts :
            \A r \in StoredFor(lastCall.attempts[i].user_id, lastCall.period) :
                /\ r.group_id = lastCall.group_id
                /\ \E g \in groups : g.id = lastCall.group_id /\ r.branch_id = g.branch_id

\* a record was written for an employee whose user row names another branch
C8_Witness ==
    /\ Generated
    /\ \E i \in OkAttempts :
          \E r \in StoredFor(lastCall.attempts[i].user_id, lastCall.period) :
              \E u \in DOMAIN employees :
                  /\ employees[u].id = r.user_id
                  /\ employees[u].branch_id # r.branch_id


(***************************************************************************)
(* Specification SpecScore: the scoring functions on drawn roster rows.    *)
(* One roster row is drawn; the preview column shows calcPreviewScore of   *)
(* it and the commit writes it, into an empty table or over a record that  *)
(* the table already holds for its key.                                    *)
(***************************************************************************)
ScoreRows ==
    [user_id : {"u1"}, name : {"zhang"}, selected : {TRUE}, batchSelected : {TRUE},
     actual_attendance : {0, 21, 22},
     required_attendance : {0, 22, 32},
     annotation_score : {20000, 85555},
     onsite_performance : {5000, 4500},
     total_inspected : {0, 200},
     total_errors : {0, 9},
     deduction_points : {0, 125},
     bonus_points : {0, 200000}]

\* the record the table holds for the row's key before the commit
EarlierRecord ==
    UpsertPerformance({}, 1,
        recordData([user_id |-> "u1", actual_attendance |-> 20,
                    required_attendance |-> 22, annotation_score |-> 90000,
                    onsite_performance |-> 3000, total_inspected |-> 50,
                    total_errors |-> 5, deduction_points |-> 1000,
                    bonus_points |-> 2000],
                   "g1", lastMonth))

InitScore ==
    /\ sc_in \in ScoreRows
    /\ sc_tg = NoRecord
    /\ sc_pv = NoRecord
    /\ performance_records = {}
    /\ quality_inspections = {}
    /\ nextId = 1
    /\ AdminInit
    /\ PageInit
    /\ ImportInitIdle
    /\ OpInitIdle

\* the roster table's preview cell for the row
previewRow ==
    /\ sc_pv = NoRecord
    /\ sc_pv' = [score |-> calcPreviewScore(sc_in)]
    /\ UNCHANGED <<storeVars, genVars, pageVars, impVars, sc_in, sc_tg, opVars, viewVars, obsVars,
                   edits>>

\* the commit's upsert of the row; earlier is the content of the table before it
commitRow(earlier) ==
    /\ sc_tg = NoRecord
    /\ LET data == recordData(sc_in, "g1", lastMonth)
           rows == UpsertPerformance(earlier, Cardinality(earlier) + 1, data)
       IN  /\ PerformanceWriteOk(data)
           /\ sc_tg' = [existed |-> earlier # {},
                        row |-> CHOOSE r \in rows : r.user_id = sc_in.user_id]
    /\ UNCHANGED <<storeVars, genVars, pageVars, impVars, sc_in, sc_pv, opVars, viewVars, obsVars,
                   edits>>

NextScore ==
    \/ previewRow
    \/ commitRow({})
    \/ commitRow(EarlierRecord)

SpecScore == InitScore /\ [][NextScore]_vars

\* the row with its zero-denominator pair replaced by a pair whose quotient is 1
FullAttendance(r) == [r EXCEPT !.required_attendance = 1, !.actual_attendance = 1]
NoErrors(r) == [r EXCEPT !.total_inspected = 1, !.total_errors = 0]

\* C4: with required_attendance = 0 the attendance sub-score is 100 and with
\* total_inspected = 0 the accuracy sub-score is 100, whatever the numerators; stated on
\* the results: the store's final_score and the preview are those of the same row with
\* full attendance (1 of 1), respectively with no errors (0 of 1 inspected).
C4_ZeroDenominatorNeutral ==
    /\ sc_tg # NoRecord =>
          /\ sc_tg.row.required_attendance = 0 =>
                /\ attendance_score(sc_tg.row) = [n |-> 100, d |-> 1]
                /\ sc_tg.row.final_score = final_score_of(FullAttendance(sc_tg.row))
          /\ sc_tg.row.total_inspected = 0 =>
                /\ accuracy_score(sc_tg.row) = [n |-> 100, d |-> 1]
                /\ sc_tg.row.final_score = final_score_of(NoErrors(sc_tg.row))
    /\ sc_pv # NoRecord =>
          /\ sc_in.required_attendance = 0 =>
                sc_pv.score = calcPreviewScore(FullAttendance(sc_in))
          /\ sc_in.total_inspected = 0 =>
                sc_pv.score = calcPreviewScore(NoErrors(sc_in))

\* a row with both denominators zero and both numerators non-zero has been scored by
\* the store and by the preview
C4_Witness ==
    /\ sc_tg # NoRecord /\ sc_pv # NoRecord
    /\ sc_in.required_attendance = 0 /\ sc_in.actual_attendance # 0
    /\ sc_in.total_inspected = 0 /\ sc_in.total_errors # 0

\* C2: the preview score of a roster row equals the final_score the store computes for
\* the record the commit writes from that row, on insert and on upsert over an existing
\* record.
C2_PreviewEqualsStored ==
    (sc_tg # NoRecord /\ sc_pv # NoRecord) => sc_pv.score = sc_tg.row.final_score


(***************************************************************************)
(* ImportData: date cells.  A cell is a sequence of one-character strings; *)
(* a parsed date is such a sequence too ("YYYY-MM-DD"); NoDate stands for  *)
(* the null of parseDate and for a text the DATE column rejects.           *)
(***************************************************************************)
NoDate == <<>>

DigitChars == <<"0", "1", "2", "3", "4", "5", "6", "7", "8", "9">>

IsDigit(c) == \E i \in DOMAIN DigitChars : DigitChars[i] = c

DigitValue(c) == (CHOOSE i \in DOMAIN DigitChars : DigitChars[i] = c) - 1

\* /^\d{lo,hi}$/
DigitRun(str, lo, hi) ==
    /\ Len(str) >= lo /\ Len(str) <= hi
    /\ \A i \in DOMAIN str : IsDigit(str[i])

\* Number(str) of a string of digits
RECURSIVE DigitsToNumber(_)
DigitsToNumber(str) ==
    IF str = <<>> THEN 0
    ELSE DigitsToNumber(SubSeq(str, 1, Len(str) - 1)) * 10 + DigitValue(str[Len(str)])

\* str.split(sep)
RECURSIVE Split(_, _)
Split(str, sep) ==
    IF \E i \in DOMAIN str : str[i] = sep
    THEN LET i == CHOOSE k \in DOMAIN str :
                      str[k] = sep /\ \A j \in 1..(k - 1) : str[j] # sep
         IN  <<SubSeq(str, 1, i - 1)>> \o Split(SubSeq(str, i + 1, Len(str)), sep)
    ELSE <<str>>

\* /^\d{4}<sep>\d{lo,hi}<sep>\d{lo,hi}$/
MatchesYMD(str, sep, lo, hi) ==
    LET part == Split(str, sep)
    IN  /\ Len(part) = 3
        /\ DigitRun(part[1], 4, 4)
        /\ DigitRun(part[2], lo, hi)
        /\ DigitRun(part[3], lo, hi)

\* str.padStart(2, '0')
padStart2(str) == IF Len(str) < 2 THEN <<"0">> \o str ELSE str

\* n as a decimal string of at least width digits
RECURSIVE NumberToDigits(_, _)
NumberToDigits(n, width) ==
    IF n < 10 /\ width <= 1 THEN <<DigitChars[n + 1]>>
    ELSE NumberToDigits(n \div 10, width - 1) \o <<DigitChars[(n % 10) + 1]>>

\* the UTC calendar date of the day `days` days after 1970-01-01
CivilFromDays(days) ==
    LET z == days + 719468
        era == z \div 146097
        doe == z - era * 146097
        yoe == (doe - doe \div 1460 + doe \div 36524 - doe \div 146096) \div 365
        doy == doe - (365 * yoe + yoe \div 4 - yoe \div 100)
        mp == (5 * doy + 2) \div 153
        d == doy - (153 * mp + 2) \div 5 + 1
        m == IF mp < 10 THEN mp + 3 ELSE mp - 9
        y == yoe + era * 400 + (IF m <= 2 THEN 1 ELSE 0)
    IN  <<y, m, d>>

\* new Date((num - 25569) * 86400 * 1000).toISOString().split('T')[0]
SerialToIso(num) ==
    LET ymd == CivilFromDays(num - 25569)
    IN  NumberToDigits(ymd[1], 4) \o <<"-">> \o NumberToDigits(ymd[2], 2)
            \o <<"-">> \o NumberToDigits(ymd[3], 2)

isValidDateFormat(str) ==
    /\ str # <<>>
    /\ \/ \E s1 \in {"-", "/", "."}, s2 \in {"-", "/", "."} :
             \E i \in DOMAIN str, j \in DOMAIN str :
                 /\ i < j /\ str[i] = s1 /\ str[j] = s2
                 /\ DigitRun(SubSeq(str, 1, i - 1), 4, 4)
                 /\ DigitRun(SubSeq(str, i + 1, j - 1), 1, 2)
                 /\ DigitRun(SubSeq(str, j + 1, Len(str)), 1, 2)
       \/ DigitRun(str, 1, Len(str))

\* digits, a point, digits: a decimal numeral
IsDecimal(str) ==
    /\ Len(Split(str, ".")) = 2
    /\ DigitRun(Split(str, ".")[1], 1, Len(str))
    /\ DigitRun(Split(str, ".")[2], 1, Len(str))

\* Number(dateStr) is a number, among the cells modelled, only for the strings of digits
\* and the decimal numerals; of a positive decimal numeral the date is that of the day
\* its integer part counts
parseDate(dateStr) ==
    IF dateStr = <<>> THEN NoDate
    ELSE IF MatchesYMD(dateStr, "-", 2, 2) THEN dateStr
    ELSE IF MatchesYMD(dateStr, "/", 1, 2) \/ MatchesYMD(dateStr, ".", 1, 2)
    THEN LET part == IF MatchesYMD(dateStr, "/", 1, 2) THEN Split(dateStr, "/")
                     ELSE Split(dateStr, ".")
         IN  part[1] \o <<"-">> \o padStart2(part[2]) \o <<"-">> \o padStart2(part[3])
    ELSE IF DigitRun(dateStr, 1, Len(dateStr)) /\ DigitsToNumber(dateStr) > 0
    THEN SerialToIso(DigitsToNumber(dateStr))
    ELSE IF IsDecimal(dateStr)
    THEN SerialToIso(DigitsToNumber(Split(dateStr, ".")[1]))
    ELSE NoDate

\* the value a DATE column takes from the text "YYYY-MM-DD", NoDate when the store
\* rejects the text
ToDateColumn(iso) ==
    LET y == DigitsToNumber(SubSeq(iso, 1, 4))
        m == DigitsToNumber(SubSeq(iso, 6, 7))
        d == DigitsToNumber(SubSeq(iso, 9, 10))
        days == IF m \in {4, 6, 9, 11} THEN 30
                ELSE IF m = 2 THEN (IF IsLeapYear(y) THEN 29 ELSE 28)
                ELSE 31
    IN  IF y >= 1 /\ m >= 1 /\ m <= 12 /\ d >= 1 /\ d <= days THEN <<y, m, d>> ELSE NoDate


(***************************************************************************)
(* ImportData: the texts imported                                          *)
(***************************************************************************)
MaxRows == 2            \* data rows of one imported text

Iso20240210 == <<"2", "0", "2", "4", "-", "0", "2", "-", "1", "0">>

\* data rows as parseCSV / parseExcel hand them to processImport
ImportRows ==
    {[date |-> Iso20240210,
      name |-> "zhang", topic |-> "t1", batch_name |-> "A",
      inspected_count |-> 10, error_count |-> 1],
     [date |-> <<"2", "0", "2", "4", "/", "2", "/", "1", "0">>,
      name |-> "zhang", topic |-> "t2", batch_name |-> "A",
      inspected_count |-> 5, error_count |-> 2],
     [date |-> <<"4", "5", "3", "3", "2">>,
      name |-> "li", topic |-> "t1", batch_name |-> "A",
      inspected_count |-> 7, error_count |-> 0],
     [date |-> <<"2", "0", "2", "4", "-", "1", "3", "-", "0", "1">>,
      name |-> "zhang", topic |-> "t1", batch_name |-> "B",
      inspected_count |-> 3, error_count |-> 1]}

\* data rows that processImport rejects: a name no employee has, and a date cell
\* ("2024-2-10") that isValidDateFormat accepts and parseDate does not
UnknownNameRow ==
    [date |-> Iso20240210, name |-> "wang", topic |-> "t1", batch_name |-> "A",
     inspected_count |-> 4, error_count |-> 1]

BadDateRow ==
    [date |-> <<"2", "0", "2", "4", "-", "2", "-", "1", "0">>,
     name |-> "zhang", topic |-> "t1", batch_name |-> "A",
     inspected_count |-> 6, error_count |-> 2]

\* parseDate of each date cell modelled, and the DATE value of each parsed date
ParsedDateOf ==
    [cell \in {r.date : r \in ImportRows \cup {UnknownNameRow, BadDateRow}} |->
        parseDate(cell)]

DateColumnOf ==
    [iso \in {parseDate(r.date) : r \in ImportRows} \ {NoDate} |-> ToDateColumn(iso)]

(***************************************************************************)
(* ImportData: processImport and the table quality_inspections             *)
(* UNIQUE(user_id, inspection_date, batch_name)                            *)
(***************************************************************************)
\* the stored rows a payload conflicts with; date is the payload's DATE value
ConflictingQuality(rows, data, date) ==
    {q \in rows : /\ q.user_id = data.user_id
                  /\ q.inspection_date = date
                  /\ q.batch_name = data.batch_name}

\* the statement fails on a text the DATE column rejects or on a missing branch
QualityWriteOk(data) ==
    /\ DateColumnOf[data.inspection_date] # NoDate
    /\ data.branch_id # ""

\* the row a payload becomes in the table
QualityRow(data) == [data EXCEPT !.inspection_date = DateColumnOf[@]]

\* fault model: an upsert that adds the payload's counts to the stored ones
UpsertQualityAdding(rows, data) ==
    IF ConflictingQuality(rows, data, DateColumnOf[data.inspection_date]) # {}
    THEN {IF /\ q.user_id = data.user_id /\ q.batch_name = data.batch_name
             /\ q.inspection_date = DateColumnOf[data.inspection_date]
          THEN [QualityRow(data) EXCEPT !.inspected_count = @ + q.inspected_count,
                                        !.error_count = @ + q.error_count]
          ELSE q : q \in rows}
    ELSE rows \cup {QualityRow(data)}

\* INSERT ... ON CONFLICT (user_id, inspection_date, batch_name) DO UPDATE SET <payload>
UpsertQuality(rows, data) ==
    (rows \ ConflictingQuality(rows, data, DateColumnOf[data.inspection_date]))
        \cup {QualityRow(data)}

\* fault model: the user of that name in whatever branch
nameToUserAnyBranch(branch, name) ==
    LET hits == {i \in DOMAIN employees : employees[i].name = name}
    IN  IF hits = {} THEN NoRecord
        ELSE employees[CHOOSE i \in hits : \A j \in hits : j <= i]

\* nameToUser.get(name): the user of that name in the selected branch; of several users
\* of one name the Map keeps the last in the order of the users list
nameToUser(branch, name) ==
    LET hits == {i \in DOMAIN employees :
                    employees[i].branch_id = branch /\ employees[i].name = name}
    IN  IF hits = {} THEN NoRecord
        ELSE employees[CHOOSE i \in hits : \A j \in hits : j <= i]

\* the position in batchMap of the entry with the key of (user_id, date, batch), or 0
KeyIndex(batchMap, user_id, date, batch) ==
    IF \E i \in DOMAIN batchMap : /\ batchMap[i].user_id = user_id
                                  /\ batchMap[i].inspection_date = date
                                  /\ batchMap[i].batch_name = batch
    THEN CHOOSE i \in DOMAIN batchMap : /\ batchMap[i].user_id = user_id
                                        /\ batchMap[i].inspection_date = date
                                        /\ batchMap[i].batch_name = batch
    ELSE 0

\* the first loop's branch for a row with a user and a date: batchMap.has(key), then
\* the addition to the entry or batchMap.set
MergeAccepted(row, user, date, st) ==
    IF KeyIndex(st.batchMap, user.id, date, row.batch_name) # 0
    THEN [st EXCEPT
             !.batchMap[KeyIndex(st.batchMap, user.id, date, row.batch_name)] =
                 [@ EXCEPT !.inspected_count = @ + row.inspected_count,
                           !.error_count = @ + row.error_count]]
    ELSE [st EXCEPT !.batchMap =
             Append(@, [user_id |-> user.id, inspection_date |-> date,
                        topic |-> row.topic, batch_name |-> row.batch_name,
                        inspected_count |-> row.inspected_count,
                        error_count |-> row.error_count])]

\* fault model: a row without user or date is skipped without error and without count
MergeRowSkippingSilently(row, user, date, st) ==
    IF user = NoRecord \/ date = NoDate THEN st
    ELSE MergeAccepted(row, user, date, st)

\* one iteration of the first loop of processImport: row resolved to user and date;
\* st holds batchMap (in insertion order), failed and errors
MergeRow(row, user, date, st) ==
    IF user = NoRecord
    THEN [st EXCEPT !.failed = @ + 1,
                    !.errors = Append(@, <<"no such employee", row.name>>)]
    ELSE IF date = NoDate
    THEN [st EXCEPT !.failed = @ + 1,
                    !.errors = Append(@, <<"bad date", row.date>>)]
    ELSE MergeAccepted(row, user, date, st)

\* the first loop of processImport from row idx on
RECURSIVE MergeRows(_, _, _, _)
MergeRows(rows, idx, branch, st) ==
    IF idx > Len(rows) THEN st
    ELSE MergeRows(rows, idx + 1, branch,
                   MergeRow(rows[idx], nameToUser(branch, rows[idx].name),
                            ParsedDateOf[rows[idx].date], st))

\* fault model: an upsert that succeeded is not counted
PersistEntryUncounted(data, ok, idx, st) ==
    [rows |-> IF ok THEN UpsertQuality(st.rows, data) ELSE st.rows,
     success |-> st.success,
     failed |-> st.failed + (IF ok THEN 0 ELSE 1),
     errors |-> IF ok THEN st.errors ELSE Append(st.errors, <<"import failed", idx>>),
     stored |-> st.stored \o <<ok>>]

\* one iteration of the second loop of processImport: the upsert of data, whose outcome
\* is ok, and the counting of the outcome
PersistEntry(data, ok, idx, st) ==
    [rows |-> IF ok THEN UpsertQuality(st.rows, data) ELSE st.rows,
     success |-> st.success + (IF ok THEN 1 ELSE 0),
     failed |-> st.failed + (IF ok THEN 0 ELSE 1),
     errors |-> IF ok THEN st.errors ELSE Append(st.errors, <<"import failed", idx>>),
     stored |-> st.stored \o <<ok>>]

\* the payload of the upsert of an entry of batchMap
QualityData(entry, branch) ==
    [user_id |-> entry.user_id, inspection_date |-> entry.inspection_date,
     topic |-> entry.topic, batch_name |-> entry.batch_name,
     inspected_count |-> entry.inspected_count, error_count |-> entry.error_count,
     branch_id |-> branch]

\* the second loop of processImport from entry idx on; down is the set of iterations
\* at which the store cannot be reached
RECURSIVE PersistEntries(_, _, _, _, _)
PersistEntries(batchMap, idx, down, branch, st) ==
    IF idx > Len(batchMap) THEN st
    ELSE PersistEntries(batchMap, idx + 1, down, branch,
             PersistEntry(QualityData(batchMap[idx], branch),
                          idx \notin down
                              /\ QualityWriteOk(QualityData(batchMap[idx], branch)),
                          idx, st))

\* batchMap after the first loop of processImport
batchMapOf(rows, branch) ==
    MergeRows(rows, 1, branch, [batchMap |-> <<>>, failed |-> 0, errors |-> <<>>]).batchMap

\* what processImport returns and leaves in the table, after its two loops
ImportOutcome(merged, end) ==
    [rows |-> end.rows, batchMap |-> merged.batchMap, stored |-> end.stored,
     result |-> [success |-> end.success, failed |-> end.failed,
                 errors |-> SubSeq(end.errors, 1,
                                   IF Len(end.errors) < 10 THEN Len(end.errors) ELSE 10)]]

\* the second loop on what the first loop left
PersistMerged(merged, down, branch, stored) ==
    ImportOutcome(merged,
                  PersistEntries(merged.batchMap, 1, down, branch,
                                 [rows |-> stored, success |-> 0, failed |-> merged.failed,
                                  errors |-> merged.errors, stored |-> <<>>]))

\* processImport(rows) on a table holding stored: the table afterwards and the result
processImport(rows, down, branch, stored) ==
    PersistMerged(MergeRows(rows, 1, branch,
                            [batchMap |-> <<>>, failed |-> 0, errors |-> <<>>]),
                  down, branch, stored)


(***************************************************************************)
(* Specification SpecImport: the import page against the store             *)
(***************************************************************************)
\* the rows parseCSV makes of a text: it takes a first line for a header, and drops it,
\* unless the line starts with a date cell
ImportTexts ==
    {rows \in UNION {[1..n -> ImportRows] : n \in 0..MaxRows} :
        rows # <<>> => isValidDateFormat(rows[1].date)}

InitImport ==
    /\ performance_records = {}
    /\ quality_inspections = ImportedInspections
    /\ nextId = 1
    /\ AdminInit
    /\ PageInit
    /\ ImportInitIdle
    /\ OpInitIdle
    /\ ScInitIdle

\* onChange of the branch select of the import page
setSelectedBranch(b) ==
    /\ b # selectedBranch
    /\ selectedBranch' = b
    /\ Quiet
    /\ UNCHANGED <<storeVars, genVars, pageVars, importResult, scVars, opVars, viewVars, edits>>

\* the keys of batchMap whose upsert the store accepted
PersistedKeys(batchMap, stored) ==
    {[user_id |-> batchMap[i].user_id, inspection_date |-> batchMap[i].inspection_date,
      batch_name |-> batchMap[i].batch_name] : i \in {j \in DOMAIN batchMap : stored[j]}}

\* handleManualImport on a text that parseCSV turns into rows; down is the set of
\* upserts at which the store cannot be reached
handleManualImport(rows, down) ==
    IF selectedBranch = ""
    THEN /\ down = {}
         /\ alert' = [text |-> "choose a branch first"]
         /\ lastCall' = NoCall
         /\ UNCHANGED <<storeVars, genVars, pageVars, impVars, scVars, opVars, viewVars, edits>>
    ELSE \E run \in {processImport(rows, down, selectedBranch, quality_inspections)} :
             /\ edits < MaxEdits
             /\ edits' = edits + 1
             /\ down \subseteq DOMAIN run.batchMap
             /\ quality_inspections' = run.rows
             /\ importResult' = run.result
             /\ lastCall' =
                    [kind |-> "import", rows |-> rows, branch |-> selectedBranch,
                     down |-> down,
                     persisted |-> PersistedKeys(run.batchMap, run.stored),
                     overwrote |->
                         {k \in PersistedKeys(run.batchMap, run.stored) :
                             \E q \in quality_inspections \ run.rows :
                                 /\ q.user_id = k.user_id
                                 /\ q.inspection_date = DateColumnOf[k.inspection_date]
                                 /\ q.batch_name = k.batch_name}]
             /\ alert' = NoAlert
             /\ UNCHANGED <<performance_records, nextId, genVars, pageVars,
                            selectedBranch, scVars, opVars, viewVars>>

NextImport ==
    \/ \E b \in Branches \cup {""} : setSelectedBranch(b)
    \/ \E rows \in ImportTexts :
          \E down \in SUBSET DOMAIN batchMapOf(rows, selectedBranch) :
              handleManualImport(rows, down)

SpecImport == InitImport /\ [][NextImport]_vars

Imported == lastCall.kind = "import"

\* the positions of the import's rows that resolve to key k
RowsOfKey(k) ==
    {i \in DOMAIN lastCall.rows :
        /\ nameToUser(lastCall.branch, lastCall.rows[i].name) # NoRecord
        /\ nameToUser(lastCall.branch, lastCall.rows[i].name).id = k.user_id
        /\ ParsedDateOf[lastCall.rows[i].date] = k.inspection_date
        /\ lastCall.rows[i].batch_name = k.batch_name}

RECURSIVE SumField(_, _, _)
SumField(rows, positions, field) ==
    IF positions = {} THEN 0
    ELSE LET i == CHOOSE j \in positions : TRUE
         IN  rows[i][field] + SumField(rows, positions \ {i}, field)

\* the stored aggregates of key k
StoredAggregates(k) ==
    {q \in quality_inspections :
        /\ q.user_id = k.user_id
        /\ q.inspection_date = DateColumnOf[k.inspection_date]
        /\ q.batch_name = k.batch_name}

\* C9: the rows of one import with the same (employee, parsed date, batch) are summed,
\* and persisting a key replaces its stored aggregate: after the import the stored counts
\* of every key persisted are the within-import sums only, whatever the store held
\* before, so that importing the same rows again changes nothing.
C9_ImportReplacesAggregate ==
    Imported =>
        /\ \A k \in lastCall.persisted :
              /\ Cardinality(StoredAggregates(k)) = 1
              /\ \A q \in StoredAggregates(k) :
                    /\ q.inspected_count =
                           SumField(lastCall.rows, RowsOfKey(k), "inspected_count")
                    /\ q.error_count =
                           SumField(lastCall.rows, RowsOfKey(k), "error_count")
        /\ lastCall.down = {} =>
              processImport(lastCall.rows, {}, lastCall.branch, quality_inspections).rows
                  = quality_inspections

\* an import merged two rows of one key and replaced counts the store held for that key
C9_Witness ==
    /\ Imported
    /\ \E k \in lastCall.overwrote : Cardinality(RowsOfKey(k)) = 2

\* the orders in which the rows of a text can come
Reorderings(rows) ==
    {[i \in DOMAIN rows |-> rows[f[i]]] :
        f \in {g \in [DOMAIN rows -> DOMAIN rows] :
                  \A i, j \in DOMAIN rows : g[i] = g[j] => i = j}}

\* C10: merging is commutative and associative: whatever the order of the rows of an
\* import, the aggregate persisted for every (employee, date, batch) key is the same.
C10_RowOrderIrrelevant ==
    (Imported /\ lastCall.down = {}) =>
        \A other \in Reorderings(lastCall.rows) :
            processImport(other, {}, lastCall.branch, {}).rows \subseteq quality_inspections


\* the employees of a branch that bear the name
NamedInBranch(branch, name) ==
    {employees[i].id : i \in {j \in DOMAIN employees :
                                 employees[j].branch_id = branch /\ employees[j].name = name}}

\* C13: names are resolved among the employees of the selected branch only: every
\* aggregate in the table belongs to an employee of the aggregate's branch, every key
\* an import persists is that of an employee of the selected branch whose name a row
\* bears, and every row whose name no employee of the selected branch bears is counted
\* as failed, also when another branch has an employee of that name.
C13_NamesResolvedInTargetBranch ==
    /\ \A q \in quality_inspections :
          \E i \in DOMAIN employees :
              employees[i].id = q.user_id /\ employees[i].branch_id = q.branch_id
    /\ Imported =>
          /\ \A k \in lastCall.persisted :
                /\ \E i \in DOMAIN lastCall.rows :
                      k.user_id \in NamedInBranch(lastCall.branch, lastCall.rows[i].name)
                /\ \A q \in StoredAggregates(k) : q.branch_id = lastCall.branch
          /\ importResult.failed >=
                Cardinality({i \in DOMAIN lastCall.rows :
                                NamedInBranch(lastCall.branch, lastCall.rows[i].name) = {}})

\* an import into b1 held a row of "li", whom only b2 employs, next to a row that was
\* persisted: the row of "li" was counted as failed and no aggregate was written for it
C13_Witness ==
    /\ Imported
    /\ lastCall.branch = "b1"
    /\ \E i \in DOMAIN lastCall.rows :
          /\ lastCall.rows[i].name = "li"
          /\ NamedInBranch("b2", "li") # {}
    /\ lastCall.persisted # {}
    /\ importResult.failed = 1
    /\ ~\E q \in quality_inspections : q.user_id \in NamedInBranch("b2", "li")


(***************************************************************************)
(* Specification SpecSplit: the same rows of one key imported as two       *)
(* different successions of imports, each succession on its own table      *)
(***************************************************************************)
MaxSplitRows == 4       \* rows handed to the two successions of imports

SplitBranch == "b1"

\* the key (employee, date, batch) all rows of SplitRows resolve to
SplitKey == [user_id |-> "u1", inspection_date |-> Iso20240210, batch_name |-> "A"]

\* the rows of ImportRows that processImport resolves to SplitKey
SplitRows ==
    {r \in ImportRows :
        /\ nameToUser(SplitBranch, r.name) # NoRecord
        /\ nameToUser(SplitBranch, r.name).id = SplitKey.user_id
        /\ ParsedDateOf[r.date] = SplitKey.inspection_date
        /\ r.batch_name = SplitKey.batch_name}

\* a succession of imports that has not imported anything yet
SplitStart == [at |-> 0, table |-> ImportedInspections, sizes |-> <<>>]

InitSplit ==
    /\ performance_records = {}
    /\ quality_inspections = ImportedInspections
    /\ nextId = 1
    /\ AdminInit
    /\ PageInit
    /\ ImportInitIdle
    /\ ScInitIdle
    /\ op_in \in UNION {[1..n -> SplitRows] : n \in 1..MaxSplitRows}
    /\ op_out = [left |-> SplitStart, right |-> SplitStart]

\* one import of the next n rows of op_in by the succession side: processImport on
\* the side's table, every upsert answered
SplitImported(side, n) ==
    [at |-> side.at + n,
     table |-> processImport(SubSeq(op_in, side.at + 1, side.at + n), {}, SplitBranch,
                             side.table).rows,
     sizes |-> Append(side.sizes, n)]

importLeft(n) ==
    /\ op_out.left.at + n <= Len(op_in)
    /\ op_out' = [op_out EXCEPT !.left = SplitImported(op_out.left, n)]
    /\ UNCHANGED <<storeVars, genVars, pageVars, impVars, scVars, op_in, viewVars, obsVars, edits>>

importRight(n) ==
    /\ op_out.right.at + n <= Len(op_in)
    /\ op_out' = [op_out EXCEPT !.right = SplitImported(op_out.right, n)]
    /\ UNCHANGED <<storeVars, genVars, pageVars, impVars, scVars, op_in, viewVars, obsVars, edits>>

NextSplit ==
    \/ \E n \in 1..MaxSplitRows : importLeft(n)
    \/ \E n \in 1..MaxSplitRows : importRight(n)

SpecSplit == InitSplit /\ [][NextSplit]_vars

\* the counts a table holds for SplitKey
SplitCounts(table) ==
    {<<q.inspected_count, q.error_count>> :
        q \in {x \in table : /\ x.user_id = SplitKey.user_id
                              /\ x.inspection_date = DateColumnOf[SplitKey.inspection_date]
                              /\ x.batch_name = SplitKey.batch_name}}

\* both successions have imported all rows
SplitDone == op_out.left.at = Len(op_in) /\ op_out.right.at = Len(op_in)

\* the sums of the counts of the last n rows of op_in
SumOfLast(n) ==
    <<SumField(op_in, (Len(op_in) - n + 1)..Len(op_in), "inspected_count"),
      SumField(op_in, (Len(op_in) - n + 1)..Len(op_in), "error_count")>>

MaxBadRun == 6          \* rejected rows in a row

ErrorsShown == 10       \* errors.slice(0, 10)

\* n times the row
Repeated(row, n) == [i \in 1..n |-> row]

\* the texts: a run of one rejected row, a row, a run of another rejected row, a row
RejectTexts ==
    {Repeated(b1, i) \o <<g1>> \o Repeated(b2, j) \o <<g2>> :
        b1 \in {UnknownNameRow, BadDateRow}, b2 \in {UnknownNameRow, BadDateRow},
        i \in 0..MaxBadRun, j \in 0..MaxBadRun, g1 \in ImportRows, g2 \in ImportRows}

InitReject ==
    /\ performance_records = {}
    /\ quality_inspections = ImportedInspections
    /\ nextId = 1
    /\ AdminInit
    /\ PageInit
    /\ ImportInitIdle
    /\ ScInitIdle
    /\ op_in \in [rows : RejectTexts, branch : Branches]
    /\ op_out = NoRecord

\* processImport(rows) with op_in.branch selected, every upsert answered
importRejecting ==
    /\ op_out = NoRecord
    /\ op_out' = processImport(op_in.rows, {}, op_in.branch, quality_inspections)
    /\ UNCHANGED <<storeVars, genVars, pageVars, impVars, scVars, op_in, viewVars, obsVars, edits>>

NextReject == importRejecting

SpecReject == InitReject /\ [][NextReject]_vars

\* whether processImport rejects the row under the branch
Rejected(row, branch) ==
    nameToUser(branch, row.name) = NoRecord \/ ParsedDateOf[row.date] = NoDate

RejectedPositions == {i \in DOMAIN op_in.rows : Rejected(op_in.rows[i], op_in.branch)}

\* the text without its rejected rows
RECURSIVE WithoutRejected(_, _)
WithoutRejected(rows, branch) ==
    IF rows = <<>> THEN <<>>
    ELSE IF Rejected(Head(rows), branch) THEN WithoutRejected(Tail(rows), branch)
    ELSE <<Head(rows)>> \o WithoutRejected(Tail(rows), branch)

\* the upserts of the import that the store refused
FailedUpserts == {i \in DOMAIN op_out.stored : ~op_out.stored[i]}

\* a rejected row changes nothing but the counts: the table and the merged keys are
\* those of the import of the text without its rejected rows, and failed counts every
\* rejected row once
RejectedRowsOnlyCounted ==
    /\ op_out.result.failed = Cardinality(RejectedPositions) + Cardinality(FailedUpserts)
    /\ op_out.rows =
          processImport(WithoutRejected(op_in.rows, op_in.branch), {}, op_in.branch,
                        quality_inspections).rows
    /\ op_out.batchMap = batchMapOf(WithoutRejected(op_in.rows, op_in.branch), op_in.branch)

\* C12 as stated: each rejected row adds one error and one to the failed count,
\* contributes nothing to a persisted aggregate and does not stop the other rows.
C12_RejectedRowAddsOneError ==
    op_out # NoRecord =>
        /\ RejectedRowsOnlyCounted
        /\ Len(op_out.result.errors) =
               Cardinality(RejectedPositions) + Cardinality(FailedUpserts)

\* C12 amended: as stated, but the result lists only the first ten errors.
C12_RejectedRowCountedFirstTenListed ==
    op_out # NoRecord =>
        /\ RejectedRowsOnlyCounted
        /\ Len(op_out.result.errors) =
               IF op_out.result.failed < ErrorsShown THEN op_out.result.failed
               ELSE ErrorsShown
        /\ \A i \in DOMAIN op_out.result.errors :
               i <= Cardinality(RejectedPositions) =>
                  LET at == CHOOSE k \in RejectedPositions :
                                Cardinality({j \in RejectedPositions : j < k}) = i - 1
                      row == op_in.rows[at]
                  IN  op_out.result.errors[i] =
                         IF nameToUser(op_in.branch, row.name) = NoRecord
                         THEN <<"no such employee", row.name>>
                         ELSE <<"bad date", row.date>>

\* an import of twelve rejected rows of both kinds around a row that was persisted
C12_Witness ==
    /\ op_out # NoRecord
    /\ Cardinality(RejectedPositions) > ErrorsShown
    /\ \E i, j \in RejectedPositions :
          /\ op_in.rows[i] = UnknownNameRow /\ op_in.rows[j] = BadDateRow
          /\ \E k \in DOMAIN op_in.rows : i < k /\ k < j /\ ~Rejected(op_in.rows[k], op_in.branch)
    /\ op_out.rows # quality_inspections


(***************************************************************************)
(* Specification SpecHeader: parseCSV and parseExcel on the lines of a     *)
(* file, as far as the rows they hand on are concerned                     *)
(***************************************************************************)
MaxLines == 2           \* lines of a file

\* the header label of the date column, as a cell: its two characters U+65E5 U+671F,
\* written by their readings
HeaderLabel == <<"ri", "qi">>

EmptyCell == <<>>

\* first cells that are no dates
NameCell == <<"n", "a", "m", "e">>

\* first cells that parseDate turns into a date
SlashDateCell == <<"2", "0", "2", "4", "/", "2", "/", "1", "0">>
SerialCell == <<"4", "5", "3", "3", "2">>
SerialWithTimeCell == <<"4", "5", "3", "3", "2", ".", "5">>

\* the first cells of the lines modelled
FirstCells ==
    {HeaderLabel, EmptyCell, NameCell, Iso20240210, SlashDateCell, SerialCell,
     SerialWithTimeCell, BadDateRow.date}

\* a line of the file with the first cell given
LineOf(cell) ==
    [date |-> cell, name |-> "zhang", topic |-> "t1", batch_name |-> "A",
     inspected_count |-> 10, error_count |-> 1]

\* fault model: the first line is a header unless its first cell is the label or
\* parseDate makes a date of it
dataStartIndexUnlessParsed(firstValue) ==
    IF firstValue # HeaderLabel /\ parseDate(firstValue) = NoDate THEN 1 ELSE 0

\* dataStartIndex of parseCSV and of parseExcel
dataStartIndex(firstValue) ==
    IF firstValue = HeaderLabel \/ ~isValidDateFormat(firstValue) THEN 1 ELSE 0

\* parseCSV(text), text given as its non-blank lines split into cells; the first cell
\* of a line of separators only is empty
parseCSV(lines) ==
    IF lines = <<>> THEN <<>>
    ELSE SubSeq(lines, dataStartIndex(lines[1].date) + 1, Len(lines))

\* parseExcel(file), file given as the non-empty rows of its first sheet
parseExcel(lines) ==
    IF lines = <<>> THEN <<>>
    ELSE SubSeq(lines, dataStartIndex(lines[1].date) + 1, Len(lines))

InitHeader ==
    /\ performance_records = {}
    /\ quality_inspections = ImportedInspections
    /\ nextId = 1
    /\ AdminInit
    /\ PageInit
    /\ ImportInitIdle
    /\ ScInitIdle
    /\ op_in \in UNION {[1..n -> {LineOf(c) : c \in FirstCells}] : n \in 0..MaxLines}
    /\ op_out = [csv |-> NoRecord, excel |-> NoRecord]

\* parseCSV applied to the lines
applyParseCSV ==
    /\ op_out.csv = NoRecord
    /\ op_out' = [op_out EXCEPT !.csv = [rows |-> parseCSV(op_in)]]
    /\ UNCHANGED <<storeVars, genVars, pageVars, impVars, scVars, op_in, viewVars, obsVars, edits>>

applyParseExcel ==
    /\ op_out.excel = NoRecord
    /\ op_out' = [op_out EXCEPT !.excel = [rows |-> parseExcel(op_in)]]
    /\ UNCHANGED <<storeVars, genVars, pageVars, impVars, scVars, op_in, viewVars, obsVars, edits>>

NextHeader == applyParseCSV \/ applyParseExcel

SpecHeader == InitHeader /\ [][NextHeader]_vars

\* the rows a parser handed on are all lines but the first
FirstSkipped(out) == op_in # <<>> /\ out.rows = Tail(op_in)

\* the rows a parser handed on are all lines
AllKept(out) == out.rows = op_in

DateFormatCells == {Iso20240210, SlashDateCell, SerialCell, BadDateRow.date}

MaxStored == 4          \* aggregates in the table

\* inspection dates: the first and last days of months and the days next to them
BoundaryDates ==
    {<<2023, 2, 28>>, <<2023, 3, 1>>, <<2024, 1, 31>>, <<2024, 2, 1>>, <<2024, 2, 29>>,
     <<2024, 3, 1>>, <<2024, 4, 30>>, <<2024, 5, 1>>}

\* the periods asked for: February of a leap year and of a common year, a month of 30 days
AskedPeriods == {"2024-02", "2023-02", "2024-04"}

\* the aggregate of a user on a date; the counts tell the rows apart
BoundaryRow(user, date) ==
    [user_id |-> user.id, branch_id |-> user.branch_id, inspection_date |-> date,
     topic |-> "t1", batch_name |-> "A",
     inspected_count |-> 10 * date[2] + date[3], error_count |-> date[2]]

BoundaryRows == {BoundaryRow(employees[i], d) : i \in DOMAIN employees, d \in BoundaryDates}

InitPeriod ==
    /\ performance_records = {}
    /\ quality_inspections \in {t \in SUBSET BoundaryRows : Cardinality(t) <= MaxStored}
    /\ nextId = 1
    /\ AdminInit
    /\ PageInit
    /\ ImportInitIdle
    /\ ScInitIdle
    /\ op_in \in [userIds : {{"u1", "u2"}, {"u1"}}, period : AskedPeriods,
                  table : {quality_inspections}]
    /\ op_out = NoRecord

\* fetchQCData(userIds, period): the range asked for, the rows answered, the summary
callFetchQCData ==
    /\ op_out = NoRecord
    /\ op_out' = [periodStart |-> periodStart(op_in.period),
                  periodEnd |-> periodEnd(op_in.period),
                  qcData |-> qcData(op_in.userIds, op_in.period),
                  qcSummary |-> fetchQCData(op_in.userIds, op_in.period)]
    /\ UNCHANGED <<storeVars, genVars, pageVars, impVars, scVars, op_in, viewVars, obsVars, edits>>

NextPeriod == callFetchQCData

SpecPeriod == InitPeriod /\ [][NextPeriod]_vars

\* the aggregates of the users asked for whose date lies in the month of the period
InMonth(table, userIds, period) ==
    {q \in table : /\ q.user_id \in userIds
                   /\ q.inspection_date[1] = PeriodYearMonth(period)[1]
                   /\ q.inspection_date[2] = PeriodYearMonth(period)[2]}

\* C15: fetchQCData asks for the range from the first to the last calendar day of the
\* month, both included: 2024-02 ends on February 29, 2023-02 on February 28, and the
\* rows answered are those of the month and no inspection of another month.
C15_RangeIsTheCalendarMonth ==
    op_out # NoRecord =>
        /\ op_out.periodStart[3] = 1
        /\ op_in.period = "2024-02" => op_out.periodEnd = <<2024, 2, 29>>
        /\ op_in.period = "2023-02" => op_out.periodEnd = <<2023, 2, 28>>
        /\ op_in.period = "2024-04" => op_out.periodEnd = <<2024, 4, 30>>
        /\ op_out.qcData = InMonth(quality_inspections, op_in.userIds, op_in.period)

\* February 2024 asked for with aggregates of January 31, February 1, February 29 and
\* March 1 stored: the two of February answered
C15_Witness ==
    /\ op_out # NoRecord
    /\ op_in.period = "2024-02"
    /\ {q.inspection_date : q \in quality_inspections}
           = {<<2024, 1, 31>>, <<2024, 2, 1>>, <<2024, 2, 29>>, <<2024, 3, 1>>}
    /\ {q.inspection_date : q \in op_out.qcData} = {<<2024, 2, 1>>, <<2024, 2, 29>>}

MaxNextId == 1          \* the key of the last commit that may insert records

\* principals: managers of a branch and of none (users.branch_id is SET NULL when the
\* branch is deleted), employees of a group and of none
ManagerOfB1 == [role |-> "manager", branch_id |-> "b1", group_id |-> NULL]
ManagerOfNoBranch == [role |-> "manager", branch_id |-> NULL, group_id |-> NULL]
EmployeeOfG1 == [role |-> "employee", branch_id |-> "b1", group_id |-> "g1"]
EmployeeOfNoGroup == [role |-> "employee", branch_id |-> "b2", group_id |-> NULL]

Principals == {ManagerOfB1, ManagerOfNoBranch, EmployeeOfG1, EmployeeOfNoGroup}

\* the record a commit of group groupId left for employees[i] in last month, under key id
StoredRecord(i, groupId, id) ==
    CHOOSE r \in UpsertPerformance({}, id,
                     recordData(SeedRow(employees[i], [inspected |-> 0, errors |-> 0],
                                        BatchDefaults),
                                groupId, lastMonth)) : TRUE

\* records of earlier commits: of u1 in group g1 of branch b1, and of u3, then a member
\* of group g2 of branch b2
StoredRecords == {StoredRecord(3, "g1", 101), StoredRecord(2, "g2", 102)}

\* useState(currentUser?.role === 'manager' ? (currentUser?.branch_id || '') : '')
OwnBranchOrNone(user) ==
    IF user.role = "manager" /\ user.branch_id # NULL THEN user.branch_id ELSE ""

InitView ==
    /\ performance_records = StoredRecords
    /\ quality_inspections = ImportedInspections
    /\ nextId = 1
    /\ \E user \in Principals : SignedIn(user)
    /\ selectedRecords = {}
    /\ filterBranch = OwnBranchOrNone(currentUser)
    /\ filterGroup = ""
    /\ qcRecords = {}
    /\ recentImports = {}
    /\ PageInit
    /\ selectedBranch = OwnBranchOrNone(currentUser)
    /\ importResult = NoRecord
    /\ ScInitIdle
    /\ OpInitIdle

\* the state of a page that is not mounted is that of its useState initial values
PerformanceUnmounted ==
    /\ showGenerateModal' = FALSE
    /\ generatePeriod' = ""
    /\ generateBranch' = ""
    /\ generateGroup' = ""
    /\ employeeDataList' = <<>>
    /\ batchValues' = BatchDefaults
    /\ pendingLoads' = {}
    /\ editRecord' = NoRecord
    /\ filterBranch' = OwnBranchOrNone(currentUser)
    /\ filterGroup' = ""
    /\ selectedRecords' = {}

\* the route /performance entered: the page mounted with its initial state, then
\* useEffect(() => { fetchData() }, []); the page left is unmounted
mountPerformance ==
    /\ PerformanceUnmounted
    /\ records' = fetchData(performance_records)
    /\ filterPeriod' = IF fetchData(performance_records) # {}
                          /\ ~\E r \in fetchData(performance_records) : r.period = lastMonth
                       THEN TopPeriod(fetchData(performance_records))
                       ELSE lastMonth
    /\ qcRecords' = {}
    /\ recentImports' = {}
    /\ Quiet
    /\ UNCHANGED <<storeVars, impVars, scVars, opVars, currentUser, authVars, edits>>

\* onChange of the period select
setFilterPeriod(p) ==
    /\ editRecord = NoRecord
    /\ ~showGenerateModal
    /\ p # filterPeriod
    /\ edits < MaxEdits
    /\ edits' = edits + 1
    /\ filterPeriod' = p
    /\ Quiet
    /\ UNCHANGED <<storeVars, genVars, records, editRecord, impVars, scVars, opVars, viewVars>>

availableGroups ==
    IF filterBranch # "" THEN {g \in groups : g.branch_id = filterBranch} ELSE groups

\* onChange of the group select
setFilterGroup(g) ==
    /\ editRecord = NoRecord
    /\ ~showGenerateModal
    /\ g \in {""} \cup {x.id : x \in availableGroups}
    /\ g # filterGroup
    /\ edits < MaxEdits
    /\ edits' = edits + 1
    /\ filterGroup' = g
    /\ Quiet
    /\ UNCHANGED <<storeVars, genVars, pageVars, impVars, scVars, opVars, currentUser, authVars,
                   filterBranch, qcRecords, recentImports, selectedRecords>>

\* supabase.from('users').select('id').eq('group_id', currentUser.group_id): the ids
\* answered, none when the lookup fails
groupMembers(lookupOk) ==
    IF lookupOk
    THEN {employees[i].id : i \in {k \in DOMAIN employees :
                                      employees[k].group_id = currentUser.group_id}}
    ELSE {}

\* QCAccuracy fetchData(): the rows its query on quality_inspections answers with
qcFetchData(rows, members) ==
    IF currentUser.role = "manager" /\ currentUser.branch_id # NULL
    THEN {q \in rows : q.branch_id = currentUser.branch_id}
    ELSE IF currentUser.role = "employee" /\ currentUser.group_id # NULL /\ members # {}
         THEN {q \in rows : q.user_id \in members}
         ELSE rows

\* the route /qc-accuracy entered: useEffect(() => { fetchData() }, [currentUser]);
\* the page left is unmounted
mountQCAccuracy(lookupOk) ==
    /\ qcRecords' = qcFetchData(quality_inspections, groupMembers(lookupOk))
    /\ PerformanceUnmounted
    /\ records' = {}
    /\ filterPeriod' = lastMonth
    /\ recentImports' = {}
    /\ Quiet
    /\ UNCHANGED <<storeVars, impVars, scVars, opVars, currentUser, authVars, edits>>

\* the route /import entered, open to admin and manager: useEffect(() => { fetchData() }, []);
\* the page left is unmounted;
\* the table holds fewer rows than the limit of the query
mountImportData ==
    /\ currentUser.role \in {"admin", "manager"}
    /\ recentImports' = quality_inspections
    /\ PerformanceUnmounted
    /\ records' = {}
    /\ filterPeriod' = lastMonth
    /\ qcRecords' = {}
    /\ Quiet
    /\ UNCHANGED <<storeVars, impVars, scVars, opVars, currentUser, authVars, edits>>

NextView ==
    \/ mountPerformance
    \/ \E p \in Periods \cup {""} : setFilterPeriod(p)
    \/ \E g \in GroupIds \cup {""} : setFilterGroup(g)
    \/ openGenerateModal
    \/ closeGenerateModal
    \/ \E g \in GroupIds \cup {""} : loadEmployeesForGroup(g)
    \/ \E load \in pendingLoads : loadEmployeesResolve(load)
    \/ nextId <= MaxNextId /\ handleGeneratePerformance({})
    \/ \E r \in filteredRecords : openEditModal(r)
    \/ closeEditModal
    \/ handleSaveEdit(TRUE)
    \/ \E r \in filteredRecords : handleDelete(r.id, TRUE)
    \/ \E lookupOk \in BOOLEAN : mountQCAccuracy(lookupOk)
    \/ mountImportData

SpecView == InitView /\ [][NextView]_vars

\* C17: in the session of a manager no row of the Performance Record list, as fetched
\* or as narrowed by the filters, has a branch_id other than the manager's, whatever
\* fetches, filter changes, commits, edits and deletes came before.
C17_ManagerListOfOwnBranch ==
    currentUser.role = "manager" =>
        \A r \in records \cup filteredRecords : r.branch_id = currentUser.branch_id

\* the manager of b1 has just committed records while the table holds one of branch
\* b2; the list fetched after the commit shows records
C17_Witness ==
    /\ currentUser = ManagerOfB1
    /\ lastCall # NoCall /\ lastCall.kind = "generate"
    /\ filteredRecords # {}
    /\ \E r \in performance_records : r.branch_id = "b2"

\* the group of the user of an aggregate, NULL for a user without group
GroupOfUser(userId) ==
    (CHOOSE e \in Range(employees) : e.id = userId).group_id

\* C18: in the session of an employee no row of the Quality-Inspection list belongs to a
\* user outside the employee's own group, also when the employee has no group or the
\* lookup of the group's members answers nothing.
C18_EmployeeQCListOfOwnGroup ==
    currentUser.role = "employee" =>
        \A q \in qcRecords :
            /\ currentUser.group_id # NULL
            /\ GroupOfUser(q.user_id) = currentUser.group_id

\* C19: in the session of an employee every row of the Performance Record list, as
\* fetched or as narrowed by the filters, is of the employee's own group_id.
C19_EmployeeListOfOwnGroup ==
    currentUser.role = "employee" =>
        \A r \in records \cup filteredRecords : r.group_id = currentUser.group_id

\* the branch of the user of a row of the roster
BranchOfUser(userId) ==
    (CHOOSE e \in Range(employees) : e.id = userId).branch_id

\* C20: in the session of a manager no Quality-Inspection row, Performance Record or
\* roster employee of another branch is shown by the QC-accuracy list, the Performance
\* list, the import page's list of recent imports, or the roster of batch generation.
C20_ManagerSeesOwnBranchOnEveryPath ==
    currentUser.role = "manager" =>
        /\ \A q \in qcRecords : q.branch_id = currentUser.branch_id
        /\ \A r \in filteredRecords : r.branch_id = currentUser.branch_id
        /\ \A q \in recentImports : q.branch_id = currentUser.branch_id
        /\ \A i \in DOMAIN employeeDataList :
              BranchOfUser(employeeDataList[i].user_id) = currentUser.branch_id


(***************************************************************************)
(* Specification SpecRace: two operators commit rosters of group g1 for    *)
(* last month at the same time; the store takes their upserts one by one   *)
(* in any order                                                            *)
(***************************************************************************)
MaxRoster == 2          \* rows of an operator's roster

\* the roster an operator has loaded for group g1 and edited: attendance applied to
\* every row, a deduction entered on every row
RosterOf(attendance, deduction) ==
    LET groupEmployees ==
            SelectSeqBy(employees,
                        {i \in DOMAIN employees : employees[i].group_id = "g1"})
    IN  [i \in DOMAIN groupEmployees |->
            [SeedRow(groupEmployees[i], [inspected |-> 0, errors |-> 0], BatchDefaults)
                EXCEPT !.actual_attendance = attendance, !.deduction_points = deduction]]

\* the selected rows of the rosters: the first rows of a roster, at most MaxRoster
Rosters ==
    {SubSeq(RosterOf(a, d), 1, n) :
        a \in {22, 11}, d \in {0, 200000}, n \in 1..MaxRoster}
    \cup {SubSeq(RosterOf(a, d), 2, n) : a \in {22, 11}, d \in {0, 200000}, n \in 2..MaxRoster}

InitRace ==
    /\ performance_records \in {{}, {StoredRecord(3, "g1", 101)}}
    /\ quality_inspections = ImportedInspections
    /\ nextId = 1
    /\ AdminInit
    /\ PageInit
    /\ ImportInitIdle
    /\ ScInitIdle
    /\ op_in \in [first : Rosters, second : Rosters]
    /\ op_out = [at |-> [first |-> 0, second |-> 0],
                 last |-> [u \in UserIds |-> NoRecord]]

\* the next upsert of the loop of operator who reaches the store, or fails to
RaceUpsert(who, reachable) ==
    /\ op_out.at[who] < Len(op_in[who])
    /\ \E step \in {GenerateStep(op_in[who][op_out.at[who] + 1], reachable, "g1",
                                  lastMonth, LoopStart(performance_records, nextId))} :
          /\ performance_records' = step.rows
          /\ nextId' = step.nextId
          /\ op_out' = [at |-> [op_out.at EXCEPT ![who] = @ + 1],
                        last |-> IF step.attempts[1].ok
                                 THEN [op_out.last EXCEPT ![step.attempts[1].user_id] =
                                          step.attempts[1].data]
                                 ELSE op_out.last]
    /\ UNCHANGED <<quality_inspections, genVars, pageVars, impVars, scVars, op_in, viewVars,
                   obsVars, edits>>

NextRace ==
    \E who \in {"first", "second"} : \E reachable \in BOOLEAN : RaceUpsert(who, reachable)

SpecRace == InitRace /\ [][NextRace]_vars

\* C21: when two operators commit the same (employee, period) at the same time, under
\* every interleaving of their upserts the store holds one record of the key, its input
\* fields, group and branch are all those of the upsert applied last, and its
\* final_score is the score of those fields.
C21_LastUpsertWins ==
    \A u \in UserIds :
        /\ Cardinality(StoredFor(u, lastMonth)) <= 1
        /\ op_out.last[u] # NoRecord =>
              /\ Cardinality(StoredFor(u, lastMonth)) = 1
              /\ \A r \in StoredFor(u, lastMonth) :
                    /\ \A f \in ScoringColumns : r[f] = ToColumns(op_out.last[u])[f]
                    /\ r.group_id = op_out.last[u].group_id
                    /\ r.branch_id = op_out.last[u].branch_id
                    /\ r.final_score = final_score_of(r)

\* both operators are done; their rows for u1 differ in attendance and in deduction; the
\* second's upsert for u1 came after the first's, and the record holds the second's values
C21_Witness ==
    /\ op_out.at.first = Len(op_in.first) /\ op_out.at.second = Len(op_in.second)
    /\ Len(op_in.first) = 2 /\ Len(op_in.second) = 2
    /\ op_in.first[2].user_id = "u1" /\ op_in.second[2].user_id = "u1"
    /\ op_in.first[2].actual_attendance = 22 /\ op_in.first[2].deduction_points = 0
    /\ op_in.second[2].actual_attendance = 11
    /\ op_in.second[2].deduction_points = 200000
    /\ op_out.last["u1"] # NoRecord
    /\ op_out.last["u1"].actual_attendance = 11
    /\ \E r \in StoredFor("u1", lastMonth) :
          r.actual_attendance = 11 /\ r.deduction_points = 20000


(***************************************************************************)
(* Specification SpecRoster: the generation dialog of an administrator,    *)
(* from a roster of group g1 loaded and its flags ticked or unticked       *)
(***************************************************************************)
\* values an operator types into the batch inputs (parseNumber of the text)
BatchInputs(field) ==
    CASE field = "batchAttendance" -> {22, 20}
      [] field = "batchAnnotation" -> {20000, 18000}
      [] field = "batchOnsite" -> {5000, 4000}
      [] field = "batchDeduction" -> {0, 200000}
      [] field = "batchBonus" -> {0, 200000}

BatchFields == {"batchAttendance", "batchAnnotation", "batchOnsite", "batchDeduction",
                "batchBonus"}

\* onChange of a batch input
setBatchValue(field, value) ==
    /\ showGenerateModal
    /\ employeeDataList # <<>>
    /\ value # batchValues[field]
    /\ edits < MaxEdits
    /\ edits' = edits + 1
    /\ batchValues' = [batchValues EXCEPT ![field] = value]
    /\ Quiet
    /\ UNCHANGED <<storeVars, showGenerateModal, generatePeriod, generateBranch,
                   generateGroup, employeeDataList, pendingLoads, pageVars, impVars,
                   scVars, opVars, viewVars>>

\* fault model: the values are put on the rows ticked for generation
BatchAppliedToSelected(list, cols) ==
    [i \in DOMAIN list |-> IF list[i].selected THEN SetColumns(list[i], cols) ELSE list[i]]

\* prev.map(emp => emp.batchSelected ? { ...emp, <cols> } : emp)
BatchApplied(list, cols) ==
    [i \in DOMAIN list |->
        IF list[i].batchSelected THEN SetColumns(list[i], cols) ELSE list[i]]

\* an apply button or a tick-all box of the dialog: the roster replaced, nothing else
RosterBecomes(list) ==
    /\ showGenerateModal
    /\ employeeDataList # <<>>
    /\ employeeDataList' = list
    /\ Quiet
    /\ UNCHANGED <<storeVars, showGenerateModal, generatePeriod, generateBranch,
                   generateGroup, batchValues, pendingLoads, pageVars, impVars,
                   scVars, opVars, viewVars, edits>>

applyBatchAttendance ==
    RosterBecomes(BatchApplied(employeeDataList,
                               [actual_attendance |-> batchValues.batchAttendance,
                                required_attendance |-> batchValues.batchAttendance]))

applyBatchAnnotation ==
    RosterBecomes(BatchApplied(employeeDataList,
                               [annotation_score |-> batchValues.batchAnnotation]))

applyBatchOnsite ==
    RosterBecomes(BatchApplied(employeeDataList,
                               [onsite_performance |-> batchValues.batchOnsite]))

applyBatchDeduction ==
    RosterBecomes(BatchApplied(employeeDataList,
                               [deduction_points |-> batchValues.batchDeduction]))

applyBatchBonus ==
    RosterBecomes(BatchApplied(employeeDataList,
                               [bonus_points |-> batchValues.batchBonus]))

toggleSelectAll(selected) ==
    RosterBecomes([i \in DOMAIN employeeDataList |->
                      [employeeDataList[i] EXCEPT !.selected = selected]])

toggleBatchSelectAll(selected) ==
    RosterBecomes([i \in DOMAIN employeeDataList |->
                      [employeeDataList[i] EXCEPT !.batchSelected = selected]])

\* the rosters of group g1 as loaded for last month, their flags ticked or unticked
TickedRosters ==
    LET load == [groupId |-> "g1", period |-> lastMonth,
                 batchAttendance |-> BatchDefaults.batchAttendance,
                 batchAnnotation |-> BatchDefaults.batchAnnotation]
        groupEmployees ==
            SelectSeqBy(employees,
                        {i \in DOMAIN employees : employees[i].group_id = load.groupId})
        qcSummary == fetchQCData({groupEmployees[i].id : i \in DOMAIN groupEmployees},
                                 load.period)
        loaded == [i \in DOMAIN groupEmployees |->
                      SeedRow(groupEmployees[i], qcSummary[groupEmployees[i].id], load)]
    IN  {[i \in DOMAIN loaded |->
             [loaded[i] EXCEPT !.selected = sel[i], !.batchSelected = bat[i]]] :
         sel \in [DOMAIN loaded -> BOOLEAN], bat \in [DOMAIN loaded -> BOOLEAN]}

InitRoster ==
    /\ performance_records = {}
    /\ quality_inspections = ImportedInspections
    /\ nextId = 1
    /\ AdminInit
    /\ records = {}
    /\ filterPeriod = lastMonth
    /\ showGenerateModal = TRUE
    /\ generatePeriod = lastMonth
    /\ generateBranch = ""
    /\ generateGroup = "g1"
    /\ employeeDataList \in TickedRosters
    /\ batchValues = BatchDefaults
    /\ pendingLoads = {}
    /\ editRecord = NoRecord
    /\ lastCall = NoCall
    /\ alert = NoAlert
    /\ edits = 0
    /\ ImportInitIdle
    /\ ScInitIdle
    /\ OpInitIdle

NextRoster ==
    \/ openGenerateModal
    \/ closeGenerateModal
    \/ \E p \in Periods : setGeneratePeriod(p)
    \/ \E g \in GroupIds \cup {""} : loadEmployeesForGroup(g)
    \/ \E load \in pendingLoads : loadEmployeesResolve(load)
    \/ \E u \in UserIds, f \in {"selected", "batchSelected"}, v \in BOOLEAN :
          updateEmployeeData(u, f, v)
    \/ \E f \in BatchFields : \E v \in BatchInputs(f) : setBatchValue(f, v)
    \/ applyBatchAttendance
    \/ applyBatchAnnotation
    \/ applyBatchOnsite
    \/ applyBatchDeduction
    \/ applyBatchBonus
    \/ \E selected \in BOOLEAN : toggleSelectAll(selected)
    \/ \E selected \in BOOLEAN : toggleBatchSelectAll(selected)

SpecRoster == InitRoster /\ [][NextRoster]_vars

\* the row seeded for employee emp by the load: the batch attendance and annotation of
\* the moment the group was chosen, the defaults, the sums of the month, both flags ticked
FreshRow(emp, load) ==
    [user_id |-> emp.id, name |-> emp.name, selected |-> TRUE, batchSelected |-> TRUE,
     actual_attendance |-> load.batchAttendance, required_attendance |-> 22,
     annotation_score |-> load.batchAnnotation, onsite_performance |-> 5000,
     total_inspected |-> SumOver(InMonth(quality_inspections, {emp.id}, load.period),
                                 "inspected_count"),
     total_errors |-> SumOver(InMonth(quality_inspections, {emp.id}, load.period),
                              "error_count"),
     deduction_points |-> 0, bonus_points |-> 0]

\* C22: when loadEmployeesForGroup(g) completes, the roster is exactly the employees
\* whose group_id is g, one row each, freshly seeded and with both flags ticked, no row
\* and no edit of the roster before left over; and opening the dialog starts from an
\* empty roster and the default batch values.
C22_RosterReplacedNotAccumulated ==
    [][/\ \A load \in pendingLoads :
             loadEmployeesResolve(load) =>
                 /\ Len(employeeDataList') =
                        Cardinality({e \in Range(employees) : e.group_id = load.groupId})
                 /\ Range(employeeDataList') =
                        {FreshRow(e, load) : e \in {x \in Range(employees) :
                                                        x.group_id = load.groupId}}
       /\ openGenerateModal =>
             employeeDataList' = <<>> /\ batchValues' = BatchDefaults]_vars

\* group g1 has been loaded again over a roster of g1 with unticked rows: two rows, all
\* ticked, in a dialog that still waits for no load
C22_Witness ==
    /\ showGenerateModal
    /\ generateGroup = "g1"
    /\ pendingLoads = {}
    /\ edits = 1
    /\ batchValues.batchAttendance = 20
    /\ Len(employeeDataList) = 2
    /\ \A i \in DOMAIN employeeDataList :
          /\ employeeDataList[i].selected /\ employeeDataList[i].batchSelected
          /\ employeeDataList[i].actual_attendance = 20
          /\ employeeDataList[i].required_attendance = 22

\* a step put the values cols on the rows ticked for batch apply and on no other row,
\* changed no other field and no flag
OnlyTickedRowsTake(cols) ==
    /\ DOMAIN employeeDataList' = DOMAIN employeeDataList
    /\ \A i \in DOMAIN employeeDataList :
          /\ employeeDataList'[i].selected = employeeDataList[i].selected
          /\ employeeDataList'[i].batchSelected = employeeDataList[i].batchSelected
          /\ ~employeeDataList[i].batchSelected =>
                employeeDataList'[i] = employeeDataList[i]
          /\ employeeDataList[i].batchSelected =>
                \A f \in DOMAIN employeeDataList[i] :
                    employeeDataList'[i][f] =
                        IF f \in DOMAIN cols THEN cols[f] ELSE employeeDataList[i][f]

\* C23: applying a batch value changes the field it stands for (for attendance, the
\* actual and the required attendance) only on the rows whose batch-applicable flag is
\* ticked; a row whose flag is unticked stays as it is even if it is selected, and no
\* apply changes a selected or batch-applicable flag.
C23_BatchApplyFrame ==
    [][/\ applyBatchAttendance =>
             OnlyTickedRowsTake([actual_attendance |-> batchValues.batchAttendance,
                                 required_attendance |-> batchValues.batchAttendance])
       /\ applyBatchAnnotation =>
             OnlyTickedRowsTake([annotation_score |-> batchValues.batchAnnotation])
       /\ applyBatchOnsite =>
             OnlyTickedRowsTake([onsite_performance |-> batchValues.batchOnsite])
       /\ applyBatchDeduction =>
             OnlyTickedRowsTake([deduction_points |-> batchValues.batchDeduction])
       /\ applyBatchBonus =>
             OnlyTickedRowsTake([bonus_points |-> batchValues.batchBonus])]_vars

\* a batch deduction was applied to a roster whose first row is selected but not ticked
\* for batch apply and whose second row is ticked for batch apply but not selected
C23_Witness ==
    /\ showGenerateModal
    /\ Len(employeeDataList) = 2
    /\ batchValues.batchDeduction = 200000
    /\ employeeDataList[1].selected /\ ~employeeDataList[1].batchSelected
    /\ employeeDataList[1].deduction_points = 0
    /\ ~employeeDataList[2].selected /\ employeeDataList[2].batchSelected
    /\ employeeDataList[2].deduction_points = 200000

\* C27: under every interleaving of group selections with the roster loads they start,
\* whenever the roster is non-empty every row of it is an employee of the group chosen
\* (generateGroup), so that a commit writes no record of an employee of one group with
\* the group_id and branch_id of another.
C27_RosterOfChosenGroup ==
    \A i \in DOMAIN employeeDataList :
        GroupOfUser(employeeDataList[i].user_id) = generateGroup

\* C28: under every interleaving of a period change with a roster load in flight,
\* whenever the roster is non-empty the total_inspected and total_errors of every row are
\* the Period Aggregator's sums for the period chosen (generatePeriod).
C28_RosterTotalsOfChosenPeriod ==
    \A i \in DOMAIN employeeDataList :
        /\ generatePeriod # ""
        /\ employeeDataList[i].total_inspected =
               SumOver(InMonth(quality_inspections, {employeeDataList[i].user_id},
                               generatePeriod), "inspected_count")
        /\ employeeDataList[i].total_errors =
               SumOver(InMonth(quality_inspections, {employeeDataList[i].user_id},
                               generatePeriod), "error_count")

\* the (employee, date, batch) keys of the rows of the text that processImport accepts
AcceptedKeys ==
    {<<nameToUser(op_in.branch, op_in.rows[i].name).id, ParsedDateOf[op_in.rows[i].date],
       op_in.rows[i].batch_name>> : i \in DOMAIN op_in.rows \ RejectedPositions}

\* C24 as stated: for an import of n data rows of which k are rejected and none fails at
\* persistence, the result is success = n - k and failed = k, with one error message
\* per rejected row.
C24_ResultCountsRows ==
    (op_out # NoRecord /\ FailedUpserts = {}) =>
        /\ op_out.result.success = Len(op_in.rows) - Cardinality(RejectedPositions)
        /\ op_out.result.failed = Cardinality(RejectedPositions)
        /\ Len(op_out.result.errors) = Cardinality(RejectedPositions)

\* C24 amended: success counts the aggregates persisted, one per distinct (employee,
\* date, batch) key among the n - k accepted rows, so it is n - k when no two accepted
\* rows share a key and never more; failed = k; and the result lists one error message
\* per rejected row up to the first ten.
C24_ResultCountsKeysAndRejectedRows ==
    (op_out # NoRecord /\ FailedUpserts = {}) =>
        /\ op_out.result.success = Cardinality(AcceptedKeys)
        /\ op_out.result.success <= Len(op_in.rows) - Cardinality(RejectedPositions)
        /\ op_out.result.failed = Cardinality(RejectedPositions)
        /\ Len(op_out.result.errors) =
               IF Cardinality(RejectedPositions) < ErrorsShown
               THEN Cardinality(RejectedPositions) ELSE ErrorsShown

\* the import of a text of three rows, one of them naming nobody of the branch and the
\* other two of different keys, has returned success 2, failed 1 and the one error
C24_Witness ==
    /\ op_out # NoRecord
    /\ FailedUpserts = {}
    /\ Len(op_in.rows) = 3
    /\ op_in.rows[1] = UnknownNameRow
    /\ op_out.result = [success |-> 2, failed |-> 1,
                        errors |-> <<<<"no such employee", UnknownNameRow.name>>>>]

(***************************************************************************)
(* Specification SpecSession: AuthContext, the stored session and the clock *)
(***************************************************************************)
MaxNow == 30            \* hours watched

NoUser == NoRecord

\* the accounts verify_user_login knows
Accounts == {Administrator, ManagerOfB1, EmployeeOfG1}

\* the stored sessions an earlier visit may have left: none, one that lasts five hours
\* more, one that ends now
StoredSessions ==
    {NoRecord} \cup {[user |-> u, expiresAt |-> e] : u \in Accounts, e \in {0, 5}}

InitSession ==
    /\ performance_records = {}
    /\ quality_inspections = {}
    /\ nextId = 1
    /\ PageInit
    /\ ImportInitIdle
    /\ ScInitIdle
    /\ OpInitIdle
    /\ currentUser = NoUser
    /\ filterBranch = ""
    /\ filterGroup = ""
    /\ qcRecords = {}
    /\ recentImports = {}
    /\ selectedRecords = {}
    /\ now = 0
    /\ pms_session \in StoredSessions
    /\ loading = TRUE

\* what the actions of the session leave alone
SessionFrame ==
    UNCHANGED <<storeVars, genVars, pageVars, impVars, scVars, opVars, filterBranch,
                filterGroup, qcRecords, recentImports, selectedRecords, obsVars, edits>>

\* the effect of AuthProvider on mount
checkSession ==
    /\ loading
    /\ IF pms_session = NoRecord
       THEN UNCHANGED <<currentUser, pms_session>>
       ELSE IF now > pms_session.expiresAt
       THEN pms_session' = NoRecord /\ currentUser' = NoUser
       ELSE currentUser' = pms_session.user /\ UNCHANGED pms_session
    /\ loading' = FALSE
    /\ UNCHANGED now
    /\ SessionFrame

\* signIn(email, password); account is the row verify_user_login returns, NoRecord
\* when it returns none or fails
signIn(account) ==
    /\ ~loading
    /\ IF account = NoRecord
       THEN UNCHANGED <<currentUser, pms_session>>
       ELSE /\ pms_session' = [user |-> account, expiresAt |-> now + SESSION_DURATION]
            /\ currentUser' = account
    /\ UNCHANGED <<now, loading>>
    /\ SessionFrame

signOut ==
    /\ ~loading
    /\ currentUser # NoUser
    /\ pms_session' = NoRecord
    /\ currentUser' = NoUser
    /\ UNCHANGED <<now, loading>>
    /\ SessionFrame

\* the page is loaded again: AuthProvider is constructed anew, localStorage stays
reloadPage ==
    /\ ~loading
    /\ currentUser' = NoUser
    /\ loading' = TRUE
    /\ UNCHANGED <<now, pms_session>>
    /\ SessionFrame

\* an hour passes
hourPasses ==
    /\ ~loading
    /\ now < MaxNow
    /\ now' = now + 1
    /\ UNCHANGED <<currentUser, pms_session, loading>>
    /\ SessionFrame

NextSession ==
    \/ checkSession
    \/ \E account \in Accounts \cup {NoRecord} : signIn(account)
    \/ signOut
    \/ reloadPage
    \/ hourPasses

SpecSession == InitSession /\ [][NextSession]_vars

\* C25: once more than 24 hours have passed since the sign-in that stored the session
\* (the clock is past its expiresAt = sign-in time + SESSION_DURATION), the application
\* no longer treats the user as authenticated: user is null and the stored session is
\* removed.
C25_NoUserAfter24Hours ==
    currentUser # NoUser =>
        /\ pms_session # NoRecord
        /\ now <= pms_session.expiresAt

(***************************************************************************)
(* Specification SpecAfterImport: imports into a store that holds the      *)
(* performance records generated for last month                            *)
(***************************************************************************)
\* the record a commit of the freshly loaded roster row of employees[i] stores for last
\* month, its totals those of the table at the time
GeneratedRecord(i, id) ==
    LET qc == fetchQCData({employees[i].id}, lastMonth)[employees[i].id]
    IN  CHOOSE r \in UpsertPerformance({}, id,
                         recordData(SeedRow(employees[i], qc, BatchDefaults),
                                    employees[i].group_id, lastMonth)) : TRUE

InitAfterImport ==
    /\ quality_inspections = ImportedInspections
    /\ performance_records =
           {GeneratedRecord(i, 100 + i) :
               i \in {j \in DOMAIN employees : employees[j].group_id = "g1"}}
    /\ nextId = 1
    /\ AdminInit
    /\ PageInit
    /\ ImportInitIdle
    /\ OpInitIdle
    /\ ScInitIdle

SpecAfterImport == InitAfterImport /\ [][NextImport]_vars

\* C26: after an import completes, the stored performance records of the employees it
\* wrote inspections for, for the period of those inspections, hold the Period
\* Aggregator's sums over the table as the import left it, without a regeneration.
C26_RecordsFollowImport ==
    Imported =>
        \A r \in performance_records :
            (\E k \in lastCall.persisted :
                 /\ k.user_id = r.user_id
                 /\ DateColumnOf[k.inspection_date] \in
                        {q.inspection_date :
                            q \in InMonth(quality_inspections, {r.user_id}, r.period)})
            => /\ r.total_inspected =
                      SumOver(InMonth(quality_inspections, {r.user_id}, r.period),
                              "inspected_count")
               /\ r.total_errors =
                      SumOver(InMonth(quality_inspections, {r.user_id}, r.period),
                              "error_count")

(***************************************************************************)
(* Specification SpecSelect: the list of the Performance page, its filters *)
(* and the ticks for batch delete                                          *)
(***************************************************************************)
\* the checkbox of a row of the table
toggleRecordSelection(recordId) ==
    /\ canEdit
    /\ editRecord = NoRecord
    /\ ~showGenerateModal
    /\ \E r \in filteredRecords : r.id = recordId
    /\ selectedRecords' = IF recordId \in selectedRecords
                          THEN selectedRecords \ {recordId}
                          ELSE selectedRecords \cup {recordId}
    /\ Quiet
    /\ UNCHANGED <<storeVars, genVars, pageVars, impVars, scVars, opVars, currentUser,
                   authVars, filterBranch, filterGroup, qcRecords, recentImports, edits>>

\* the checkbox of the table's header, shown while the table has rows
toggleAllRecords(checked) ==
    /\ canEdit
    /\ editRecord = NoRecord
    /\ ~showGenerateModal
    /\ filteredRecords # {}
    /\ selectedRecords' = IF checked THEN {r.id : r \in filteredRecords} ELSE {}
    /\ Quiet
    /\ UNCHANGED <<storeVars, genVars, pageVars, impVars, scVars, opVars, currentUser,
                   authVars, filterBranch, filterGroup, qcRecords, recentImports, edits>>

\* the batch delete button, shown while an id is ticked, and the confirm accepted
handleBatchDelete(reachable) ==
    /\ canEdit
    /\ editRecord = NoRecord
    /\ ~showGenerateModal
    /\ selectedRecords # {}
    /\ performance_records' = IF reachable
                              THEN {r \in performance_records : r.id \notin selectedRecords}
                              ELSE performance_records
    /\ lastCall' = [kind |-> "batchDelete", ok |-> reachable, ids |-> selectedRecords,
                    visible |-> {r.id : r \in filteredRecords}]
    /\ IF reachable
       THEN /\ alert' = [text |-> "batch deleted"]
            /\ selectedRecords' = {}
            /\ FetchDataFrom(performance_records')
       ELSE /\ alert' = [text |-> "batch delete failed"]
            /\ UNCHANGED <<selectedRecords, records, filterPeriod>>
    /\ UNCHANGED <<quality_inspections, nextId, genVars, editRecord, impVars, scVars, opVars,
                   currentUser, authVars, filterBranch, filterGroup, qcRecords,
                   recentImports, edits>>

\* the page as an administrator finds it after its first fetch
InitSelect ==
    /\ performance_records = StoredRecords
    /\ quality_inspections = ImportedInspections
    /\ nextId = 1
    /\ AdminInit
    /\ records = fetchData(StoredRecords)
    /\ filterPeriod = lastMonth
    /\ showGenerateModal = FALSE
    /\ generatePeriod = ""
    /\ generateBranch = ""
    /\ generateGroup = ""
    /\ employeeDataList = <<>>
    /\ batchValues = BatchDefaults
    /\ pendingLoads = {}
    /\ editRecord = NoRecord
    /\ lastCall = NoCall
    /\ alert = NoAlert
    /\ edits = 0
    /\ ImportInitIdle
    /\ ScInitIdle
    /\ OpInitIdle

NextSelect ==
    \/ \E p \in Periods \cup {""} : setFilterPeriod(p)
    \/ \E g \in GroupIds \cup {""} : setFilterGroup(g)
    \/ \E r \in filteredRecords : toggleRecordSelection(r.id)
    \/ \E checked \in BOOLEAN : toggleAllRecords(checked)
    \/ \E reachable \in BOOLEAN : handleBatchDelete(reachable)
    \/ \E r \in filteredRecords : \E reachable \in BOOLEAN : handleDelete(r.id, reachable)

SpecSelect == InitSelect /\ [][NextSelect]_vars

\* C29: the ids ticked for batch delete are always ids of rows of the filtered list on
\* display, and a batch delete removes no record that the list did not show.
C29_TickedAreDisplayed ==
    /\ selectedRecords \subseteq {r.id : r \in filteredRecords}
    /\ lastCall.kind = "batchDelete" => lastCall.ids \subseteq lastCall.visible

\* C30: header detection and date parsing agree on what a date is: isValidDateFormat of
\* a first cell is true exactly when parseDate makes a date of it, so that a first line
\* kept as data is not rejected for its date and a first line whose date parseDate
\* accepts is not skipped as a header.
C30_FormatIffParsed ==
    \A out \in {op_out.csv, op_out.excel} \ {NoRecord} :
        op_in # <<>> =>
            /\ isValidDateFormat(op_in[1].date) <=> parseDate(op_in[1].date) # NoDate
            /\ AllKept(out) => parseDate(op_in[1].date) # NoDate
            /\ parseDate(op_in[1].date) # NoDate => AllKept(out)

====
